---------------------------- MODULE Spec2Model ----------------------------
(***************************************************************************)
(* State-machine model of the content pipeline of seo-content-agent:       *)
(* the task record store (runs, briefs, articles), the HTTP handlers that  *)
(* create records and schedule orchestrators, the PATCH handler of briefs, *)
(* the scheduler sweep and the orchestrators process_run, process_brief,   *)
(* process_article_from_brief, process_article_from_custom_brief and       *)
(* process_quick_draft.                                                    *)
(*                                                                         *)
(* Granularity.  The store is the only shared state and every store call   *)
(* runs under the store lock, so an orchestrator action is the code from   *)
(* one store call up to and including the next one.  The orchestrators and *)
(* the POST handlers are coroutines of one event loop: a coroutine keeps   *)
(* the loop until it awaits (the only await is the asyncio.gather of the   *)
(* extractions) or ends, and the model calls are synchronous.  The PATCH   *)
(* handler is a sync handler, run on a worker thread: its read and its     *)
(* write are two actions, which interleave with everything.                *)
(*                                                                         *)
(* Environment.  Store calls succeed.  Fetching a URL succeeds or fails as *)
(* fixed by the web (Web).  A model call or an export either returns or    *)
(* raises; the text a model call returns may be whitespace only, which     *)
(* complete() strips to the empty text.  What a call raises is any         *)
(* Exception subclass, of which the model keeps whether it is a ValueError.*)
(***************************************************************************)
EXTENDS Integers, Sequences, FiniteSets, TLC

VARIABLES
    store,      \* the three record tables: store[table][id]
    tasks,      \* tasks[table][id]: the background task scheduled for the record
    patches,    \* the PATCH /api/briefs/{id} handlers between their read and their write
    exports,    \* files written by export_to_local_doc, in order
    loop,       \* <<table, id>> of the coroutine the event loop is running, or <<>>
    rows,       \* StoreSpec: the rows of one table with their timestamps, rows[id]
    clock,      \* StoreSpec: the wall clock
    calls,      \* StoreSpec: calls[thread], the store call the thread is inside
    urlcall,    \* UrlSpec: one call of a function of the URL services and what it returned
    auth        \* AuthSpec: the sessions table, and the session lookups under way

vars == <<store, tasks, patches, exports, loop, rows, clock, calls, urlcall, auth>>

\* The variables of the pipeline (Spec), those of the store seen with its
\* timestamps and its callers' threads (StoreSpec), and the call of a pure
\* function of the URL services (UrlSpec).
pipeline == <<store, tasks, patches, exports, loop>>

timed == <<rows, clock, calls>>

pure == <<urlcall>>

---------------------------------------------------------------------------
(* Bounds of the model. *)

MaxRecords == 2     \* records created over a behaviour, all tables together
MaxPatches == 1     \* PATCH handlers in flight at a time
MaxLaunches == 2    \* orchestrator invocations counted per record
MaxRows == 2        \* StoreSpec: rows inserted over a behaviour
MaxClock == 2       \* StoreSpec: ticks of the wall clock
MaxSeeds == 2       \* UrlSpec: seed URLs of a call of collect_seed_urls
MaxTextUrls == 2    \* UrlSpec: URLs found in the citation text, and in the overview text
MaxCandidates == 3  \* UrlSpec: candidates of a call of select_top_urls
MaxSessions == 2    \* AuthSpec: sessions created over a behaviour

---------------------------------------------------------------------------
(* Values. *)

None == "None"

Users == {"u1", "u2"}

\* The user whose requests create records; the other one is a stranger to them.
Creators == {"u1"}

Tables == {"runs", "briefs", "articles"}

\* A text of whitespace only, twenty characters long.
Blank == "                    "

\* str.strip on the texts of the model.
Strip(text) == IF text = Blank THEN "" ELSE text

\* URLs, as urlparse splits them.  path is a sequence of characters.
Url(scheme, host, path) == [scheme |-> scheme, host |-> host, path |-> path]

UrlA == Url("https", "example.com", <<"/", "a">>)
UrlASlash == Url("https", "example.com", <<"/", "a", "/">>)
UrlB == Url("http", "blog.example.org", <<"/", "b">>)
UrlDead == Url("https", "down.example.net", <<"/", "x">>)
UrlReddit == Url("https", "WWW.Reddit.com", <<"/", "r">>)
UrlShop == Url("https", "example.com", <<"/", "s", "h", "o", "p">>)
UrlFtp == Url("ftp", "example.com", <<"/", "a">>)
EmptyUrl == Url("", "", <<>>)

---------------------------------------------------------------------------
(* services/source_collector.py *)

RECURSIVE RStripSlash(_)
\* url.strip().rstrip("/ "): the trailing slashes and spaces of the URL go.
RStripSlash(path) ==
    IF Len(path) > 0 /\ path[Len(path)] \in {"/", " "}
    THEN RStripSlash(SubSeq(path, 1, Len(path) - 1))
    ELSE path

CleanUrl(u) == [u EXCEPT !.path = RStripSlash(@)]

RECURSIVE Unique(_, _)
\* The loop over collected: keep a cleaned URL that is non-empty and not seen.
Unique(collected, unique) ==
    IF collected = <<>> THEN unique
    ELSE LET cleaned == CleanUrl(Head(collected))
             seen == {unique[i] : i \in 1..Len(unique)}
         IN  IF cleaned # EmptyUrl /\ cleaned \notin seen
             THEN Unique(Tail(collected), Append(unique, cleaned))
             ELSE Unique(Tail(collected), unique)

\* The seeds come after the URLs of the two texts.
collect_seed_urls_SeedsLast(seed_urls, ai_citations_text, ai_overview_text) ==
    Unique(ai_citations_text \o ai_overview_text \o seed_urls, <<>>)

\* ai_citations_text and ai_overview_text are given by the URLs URL_RE finds in them.
collect_seed_urls(seed_urls, ai_citations_text, ai_overview_text) ==
    Unique(seed_urls \o ai_citations_text \o ai_overview_text, <<>>)

---------------------------------------------------------------------------
(* services/url_validator.py *)

BLOCKED_DOMAINS ==
    {"reddit.com", "www.reddit.com", "quora.com", "www.quora.com",
     "youtube.com", "www.youtube.com", "youtu.be", "pinterest.com",
     "www.pinterest.com", "wikipedia.org", "www.wikipedia.org"}

BLOCKED_PATH_HINTS ==
    {<<"/", "f", "o", "r", "u", "m">>,
     <<"/", "f", "o", "r", "u", "m", "s">>,
     <<"/", "p", "r", "o", "d", "u", "c", "t", "s">>,
     <<"/", "s", "h", "o", "p">>,
     <<"/", "c", "a", "t", "e", "g", "o", "r", "y">>,
     <<"/", "t", "a", "g">>}

\* str.lower on the hosts of the model.
Lower(host) ==
    CASE host = "WWW.Reddit.com" -> "www.reddit.com"
      [] host = "YouTu.be" -> "youtu.be"
      [] OTHER -> host

\* str.lower on the paths of the model.
LowerPath(path) == [i \in DOMAIN path |-> IF path[i] = "S" THEN "s" ELSE path[i]]

\* hint in path
Contains(hint, path) ==
    \E i \in 0..(Len(path) - Len(hint)) : SubSeq(path, i + 1, i + Len(hint)) = hint

is_acceptable_url(u) ==
    /\ u.scheme \in {"http", "https"}
    /\ Lower(u.host) \notin BLOCKED_DOMAINS
    /\ ~ \E hint \in BLOCKED_PATH_HINTS : Contains(hint, LowerPath(u.path))

RECURSIVE Filter(_)
Filter(urls) ==
    IF urls = <<>> THEN <<>>
    ELSE IF is_acceptable_url(Head(urls))
         THEN <<Head(urls)>> \o Filter(Tail(urls))
         ELSE Filter(Tail(urls))

Min(a, b) == IF a < b THEN a ELSE b

\* list[:stop]: a negative stop counts from the end of the list.
Slice(list, stop) ==
    LET end == IF stop >= 0 THEN Min(stop, Len(list))
               ELSE IF Len(list) + stop > 0 THEN Len(list) + stop ELSE 0
    IN  SubSeq(list, 1, end)

select_top_urls(urls, max_urls) ==
    LET filtered == Filter(urls)
    IN  Slice(filtered, max_urls)

\* core/config.py: settings.max_urls, MAX_URLS unset.
settings_max_urls == 3

---------------------------------------------------------------------------
(* The URL services called on their own (UrlSpec): one call, its arguments *)
(* and, once it has returned, <<what it returned>>.                        *)

SeqsUpTo(S, n) == UNION {[1..k -> S] : k \in 0..n}

UrlSlashOnly == Url("", "", <<"/">>)
UrlASpace == Url("https", "example.com", <<"/", "a", " ">>)

\* Seed URLs are any strings of the request; URL_RE finds in a text only
\* URLs that start with http:// or https:// and hold no whitespace.
SeedUrls == {UrlA, UrlASlash, UrlASpace, UrlB, EmptyUrl, UrlSlashOnly}
TextUrls == {UrlA, UrlASlash, UrlB}

Schemes == {"http", "https", "ftp"}
Hosts ==
    BLOCKED_DOMAINS \cup
    {"www.youtu.be", "WWW.Reddit.com", "YouTu.be", "m.reddit.com", "example.com"}
Paths == {<<>>, <<"/", "a">>, <<"/", "s", "h", "o", "p">>, <<"/", "S", "h", "o", "p">>,
          <<"/", "a", "/", "t", "a", "g", "s">>}
ValidatorUrls == {Url(scheme, host, path) : scheme \in Schemes, host \in Hosts, path \in Paths}

Candidates == {UrlA, UrlB, UrlReddit, UrlShop, UrlFtp}

\* int(os.getenv("MAX_URLS", "3")): any integer the environment holds.
Maxima == (0 - 1)..settings_max_urls

UrlCall(op, args) == [op |-> op, args |-> args, result |-> <<>>]

NoUrlCall == UrlCall("none", <<>>)

UrlCalls ==
    {UrlCall("collect_seed_urls",
             [seed_urls |-> s, ai_citations_text |-> c, ai_overview_text |-> o]) :
        s \in SeqsUpTo(SeedUrls, MaxSeeds),
        c \in SeqsUpTo(TextUrls, MaxTextUrls),
        o \in SeqsUpTo(TextUrls, MaxTextUrls)}
    \cup {UrlCall("is_acceptable_url", [url |-> u]) : u \in ValidatorUrls}
    \cup {UrlCall("select_top_urls", [urls |-> c, max_urls |-> m]) :
            c \in SeqsUpTo(Candidates, MaxCandidates), m \in Maxima}

---------------------------------------------------------------------------
(* services/extractor.py *)

\* The web: whether the fetch of a URL returns a 2xx page, and the number of
\* words the two extraction methods find in the page.  A text is given by
\* its number of words.
Web(u) ==
    IF u = UrlA THEN [ok |-> TRUE, title |-> "A", trafilatura |-> 500, bs4 |-> 600]
    ELSE IF u = UrlB THEN [ok |-> TRUE, title |-> "B", trafilatura |-> 40, bs4 |-> 60]
    ELSE [ok |-> FALSE, title |-> "", trafilatura |-> 0, bs4 |-> 0]

HttpError == [type |-> "Exception", msg |-> "fetch failed"]

\* The result asyncio.gather(..., return_exceptions=True) holds for the URL:
\* a UrlContent, or the exception _fetch_html raised.
extract_url_content(u) ==
    IF ~ Web(u).ok THEN HttpError
    ELSE [url |-> u,
          title |-> Web(u).title,
          text |-> IF Web(u).trafilatura < 150 THEN Web(u).bs4 ELSE Web(u).trafilatura]

IsException(result) == "type" \in DOMAIN result

---------------------------------------------------------------------------
(* services/llm_client.py and the services that call it *)

\* What a call of llm_client.complete does: the service answers with a text,
\* or with nothing but whitespace, or the call raises a ValueError (such as
\* UnicodeEncodeError or json.JSONDecodeError), or it raises an exception of
\* another class.
Outcomes == {"returns", "empty", "ValueError", "Exception"}

\* Outside the inner try every exception meets the same except Exception
\* clause: one failing outcome stands for all.
OuterOutcomes == {"returns", "empty", "Exception"}

\* What a call of export_to_local_doc does: it writes the file and returns
\* its path, or raises (OSError).
ExportOutcomes == {"returns", "Exception"}

\* The call returned.
Returns(outcome) == outcome \in {"returns", "empty"}

\* The exception a failing external call raises.
Raised(outcome) == [type |-> outcome, msg |-> "external call failed"]

\* response.output_text of the service, by the instruction it was given.
OutputText(instruction, outcome) ==
    IF outcome = "empty" THEN Blank
    ELSE CASE instruction = "SUMMARY_INSTRUCTION" -> "summary"
           [] instruction = "ANALYSIS_INSTRUCTION" -> "analysis"
           [] instruction = "BRIEF_INSTRUCTION" -> "brief from sources"
           [] instruction = "FALLBACK_BRIEF_INSTRUCTION" -> "brief from query"
           [] instruction = "WRITER_INSTRUCTION" -> "article from analysis"
           [] instruction = "BRIEF_WRITER_INSTRUCTION" -> "article from brief"

\* complete() of a call that returns: response.output_text.strip()
Complete(instruction, outcome) == Strip(OutputText(instruction, outcome))

TooShort == "Content too short for reliable SEO summary."

\* The threshold is out by one word.
NeedsModel_Over80(article) == article.text > 80

\* summarize_article calls the model only for a text of 80 words or more.
NeedsModel(article) == article.text >= 80

summarize_article(article, outcome) ==
    [url |-> article.url,
     summary |-> IF NeedsModel(article)
                 THEN Complete("SUMMARY_INSTRUCTION", outcome)
                 ELSE TooShort]

\* summarize_article called on its own (UrlSpec): the calls of
\* llm_client.complete it makes, by their instruction, and what it returns or
\* what the call it made raised.
Summarized(article, outcome) ==
    [calls |-> IF NeedsModel(article) THEN <<"SUMMARY_INSTRUCTION">> ELSE <<>>,
     value |-> IF NeedsModel(article) /\ ~ Returns(outcome)
               THEN Raised(outcome)
               ELSE summarize_article(article, outcome)]

\* Articles of no word, of 79, 80 and 81 words, and a long one.
Articles ==
    {[url |-> u, title |-> "T", text |-> words] :
        u \in {UrlA, UrlB}, words \in {0, 79, 80, 81, 500}}

SummarizerCalls ==
    {UrlCall("summarize_article", [article |-> a, outcome |-> o]) :
        a \in Articles, o \in Outcomes}

---------------------------------------------------------------------------
(* models/schemas.py and models/store.py *)

RunArtifacts ==
    [sources |-> <<>>, extracted_articles |-> <<>>, summaries |-> <<>>,
     seo_analysis |-> "", article_markdown |-> "", export_link |-> None]

BriefArtifacts ==
    [sources |-> <<>>, extracted_articles |-> <<>>, summaries |-> <<>>,
     seo_analysis |-> "", brief_markdown |-> ""]

ArticleArtifacts ==
    [source_brief_id |-> None, source_brief_markdown |-> "",
     article_markdown |-> "", export_link |-> None]

\* Fault injection for C19: a store that has the method the retry sweep calls.
StoreMethods_WithQueuedRuns ==
    {"create_run", "get_run", "get_run_by_id", "list_runs", "update_run",
     "create_brief", "get_brief", "get_brief_by_id", "list_briefs", "update_brief",
     "create_article", "get_article", "get_article_by_id", "list_articles",
     "update_article", "get_user_settings", "update_user_settings",
     "list_queued_runs"}

\* The record-related methods SQLiteStore and PostgresStore define.
StoreMethods ==
    {"create_run", "get_run", "get_run_by_id", "list_runs", "update_run",
     "create_brief", "get_brief", "get_brief_by_id", "list_briefs", "update_brief",
     "create_article", "get_article", "get_article_by_id", "list_articles",
     "update_article", "get_user_settings", "update_user_settings"}

\* Fault injection for C18: the row inserted as it is once the orchestrator
\* has made its first update.
Row_Running(id, user_id, query, artifacts) ==
    [id |-> id, user_id |-> user_id, query |-> query, status |-> "running",
     stage |-> "collecting_sources", progress_percent |-> 10, error |-> None,
     artifacts |-> artifacts]

\* The row the INSERT of create_run / create_brief / create_article writes.
\* The id (uuid4) is the row's position in its table.
Row(id, user_id, query, artifacts) ==
    [id |-> id, user_id |-> user_id, query |-> query, status |-> "queued",
     stage |-> "queued", progress_percent |-> 0, error |-> None,
     artifacts |-> artifacts]

ArticleRow(id, user_id, mode, query, artifacts) ==
    [id |-> id, user_id |-> user_id, mode |-> mode, query |-> query,
     status |-> "queued", stage |-> "queued", progress_percent |-> 0,
     error |-> None, artifacts |-> artifacts]

Exists(st, table, id) == id \in DOMAIN st[table]

\* Fault injection for C15: the SELECT without its "AND user_id = ?".
Get_AnyOwner(st, table, user_id, id) ==
    IF Exists(st, table, id) THEN <<st[table][id]>> ELSE <<>>

\* get_run / get_brief / get_article: the row of that id and owner, as <<row>>,
\* or <<>> for None.
Get(st, table, user_id, id) ==
    IF Exists(st, table, id) /\ st[table][id].user_id = user_id
    THEN <<st[table][id]>>
    ELSE <<>>

\* list_runs / list_briefs / list_articles: SELECT * WHERE user_id = ?.  The
\* rows are given as a set; the tables of the model stay far below LIMIT 100.
List(st, table, user_id) ==
    {st[table][id] : id \in {i \in DOMAIN st[table] : st[table][i].user_id = user_id}}

\* Fault injection for C20: the update as a write of the whole row, the
\* columns that were not supplied set as in a row just inserted.
UpdateEntity_WholeRow(st, table, id, kwargs) ==
    LET allowed == {"status", "stage", "progress_percent", "error", "artifacts"}
        updates == DOMAIN kwargs \cap allowed
        fresh == Row(id, "", "", st[table][id].artifacts)
    IN  IF updates = {} \/ ~ Exists(st, table, id) THEN st
        ELSE [st EXCEPT ![table][id] =
                [f \in DOMAIN @ |->
                    IF f \in updates THEN kwargs[f]
                    ELSE IF f \in allowed THEN fresh[f] ELSE @[f]]]

\* _update_entity: UPDATE table SET <the allowed keys of kwargs> WHERE id = ?
UpdateEntity(st, table, id, kwargs) ==
    LET allowed == {"status", "stage", "progress_percent", "error", "artifacts"}
        updates == DOMAIN kwargs \cap allowed
    IN  IF updates = {} \/ ~ Exists(st, table, id) THEN st
        ELSE [st EXCEPT ![table][id] =
                [f \in DOMAIN @ |-> IF f \in updates THEN kwargs[f] ELSE @[f]]]

update_brief(st, brief_id, kwargs) == UpdateEntity(st, "briefs", brief_id, kwargs)

\* Fault injection for C14: the update of an article sent to the briefs table.
update_article_IntoBriefs(st, article_id, kwargs) ==
    UpdateEntity(st, "briefs", article_id, kwargs)

update_article(st, article_id, kwargs) ==
    UpdateEntity(st, "articles", article_id, kwargs)

\* Fault injection for C21: the UPDATE without its "WHERE id = ?".
Update_EveryRow(st, table, id, kwargs) ==
    [st EXCEPT ![table] =
        [i \in DOMAIN @ |->
            [f \in DOMAIN @[i] |-> IF f \in DOMAIN kwargs THEN kwargs[f] ELSE @[i][f]]]]

\* The update method the orchestrators of a table call: update_brief in
\* brief_pipeline.py, update_article in article_pipeline.py.
Update(st, table, id, kwargs) ==
    IF table = "briefs" THEN update_brief(st, id, kwargs)
    ELSE update_article(st, id, kwargs)

---------------------------------------------------------------------------
(* The keyword arguments of the orchestrators' store updates. *)

\* brief_pipeline.py:19, article_pipeline.py:15 and :57
RunningKwargs(fn) ==
    IF fn = "process_brief"
    THEN [status |-> "running", stage |-> "collecting_sources",
          progress_percent |-> 10, error |-> None]
    ELSE IF fn = "process_quick_draft"
    THEN [status |-> "running", stage |-> "collecting_sources",
          progress_percent |-> 10, error |-> None]
    ELSE [status |-> "running", stage |-> "writing_article",
          progress_percent |-> 15, error |-> None]

\* brief_pipeline.py:35 and :47, article_pipeline.py:73 and :83
BuildingKwargs(fn) ==
    IF fn = "process_brief"
    THEN [stage |-> "building_brief", progress_percent |-> 78]
    ELSE [stage |-> "building_internal_brief", progress_percent |-> 72]

\* Fault injection for C8: the checkpoint with its digits swapped.
WritingKwargs_DigitsSwapped == [stage |-> "writing_article", progress_percent |-> 48]

\* article_pipeline.py:90
WritingKwargs == [stage |-> "writing_article", progress_percent |-> 84]

\* The export checkpoint written with the label of an earlier stage.
ExportingKwargs_Building(fn) ==
    [stage |-> "building_internal_brief", progress_percent |-> 95]

\* article_pipeline.py:27 and :99
ExportingKwargs(fn) ==
    IF fn = "process_quick_draft"
    THEN [stage |-> "exporting_output", progress_percent |-> 95]
    ELSE [stage |-> "exporting_output", progress_percent |-> 90]

\* brief_pipeline.py:62-68, article_pipeline.py:35-41 and :107-113
CompletedKwargs(artifacts) ==
    [status |-> "completed", stage |-> "completed", progress_percent |-> 100,
     artifacts |-> artifacts]

\* Fault injection for C9: the failing update without the status.
FailedKwargs_NoStatus(exc) ==
    [stage |-> "failed", progress_percent |-> 100, error |-> exc.msg]

\* brief_pipeline.py:70-76, article_pipeline.py:43 and :115
FailedKwargs(exc) ==
    [status |-> "failed", stage |-> "failed", progress_percent |-> 100,
     error |-> exc.msg]

\* Fault injection for C2: an edit that also sends the brief back to the queue.
PatchKwargs_Requeue(artifacts, brief_markdown) ==
    [artifacts |-> [artifacts EXCEPT !.brief_markdown = brief_markdown],
     stage |-> "edited_draft", status |-> "queued"]

\* routes_briefs.py:56-57
PatchKwargs(artifacts, brief_markdown) ==
    [artifacts |-> [artifacts EXCEPT !.brief_markdown = brief_markdown],
     stage |-> "edited_draft"]

---------------------------------------------------------------------------
(* Requests. *)

Query == "best espresso machines"

\* The source fields of a POST body: seed_urls, and the URLs URL_RE finds in
\* ai_citations_text and in ai_overview_text.
Sources(seed_urls, ai_citations_text, ai_overview_text) ==
    [seed_urls |-> seed_urls, ai_citations_text |-> ai_citations_text,
     ai_overview_text |-> ai_overview_text]

\* No URL qualifies; the one that qualifies cannot be fetched; of the three
\* that qualify the first and the last can be fetched.
RequestSources ==
    {Sources(<<UrlReddit, UrlFtp>>, <<UrlShop>>, <<EmptyUrl>>),
     Sources(<<UrlDead>>, <<>>, <<>>),
     Sources(<<UrlA, UrlReddit>>, <<UrlASlash, UrlDead>>, <<UrlB>>)}

\* Bodies of PATCH /api/briefs/{id} that pass min_length=20.
PatchBodies == {"an edited brief of twenty characters"}

\* Bodies that do not: no text, nineteen letters, nineteen spaces.
ShortBodies == {"", "nineteen characters", "                   "}

\* custom_brief_markdown of POST /api/articles
CustomBriefs == {"a custom brief", Blank}

---------------------------------------------------------------------------
(* Background tasks: one coroutine per asyncio.create_task. *)

Pending == [pending |-> TRUE]

\* The orchestrator is not handed the text of the brief: it reads none.
Task_WithoutBrief(fn, query, sources, source_brief_id, brief_markdown) ==
    [fn |-> fn, pc |-> "start", query |-> query,
     seed_urls |-> sources.seed_urls,
     ai_citations_text |-> sources.ai_citations_text,
     ai_overview_text |-> sources.ai_overview_text,
     source_brief_id |-> source_brief_id,
     brief_markdown |-> "",
     top_urls |-> <<>>, results |-> <<>>, summaries |-> <<>>,
     seo_analysis |-> "", article_markdown |-> "",
     fallback |-> FALSE, blank |-> FALSE, launched |-> 1, raised |-> {}]

Task(fn, query, sources, source_brief_id, brief_markdown) ==
    [fn |-> fn, pc |-> "start", query |-> query,
     seed_urls |-> sources.seed_urls,
     ai_citations_text |-> sources.ai_citations_text,
     ai_overview_text |-> sources.ai_overview_text,
     source_brief_id |-> source_brief_id,
     brief_markdown |-> brief_markdown,
     top_urls |-> <<>>, results |-> <<>>, summaries |-> <<>>,
     seo_analysis |-> "", article_markdown |-> "",
     fallback |-> FALSE,     \* the except ValueError clause was entered
     blank |-> FALSE,        \* a model call returned whitespace only
     launched |-> 1,         \* the asyncio.create_task calls made for the record
     raised |-> {}]          \* the exceptions raised in this invocation

NoSources == Sources(<<>>, <<>>, <<>>)

NumRecords ==
    Cardinality(DOMAIN store.runs) + Cardinality(DOMAIN store.briefs)
        + Cardinality(DOMAIN store.articles)

\* uuid4(): an id no row of the table has.
NewId(table) == ToString(Cardinality(DOMAIN store[table]) + 1)

\* An id no record has.
Absent == "0"

Extend(f, k, v) == [x \in DOMAIN f \cup {k} |-> IF x = k THEN v ELSE f[x]]

\* The event loop is between callbacks.
Idle == loop = <<>>

\* The event loop is running the orchestrator of the record.
Runs(table, id) == loop = <<table, id>>

---------------------------------------------------------------------------
(* The store with its timestamps: models/store.py.  One table stands for   *)
(* the three (articles, which has every column); its callers are the event *)
(* loop thread and a worker thread of the sync handlers.  A call takes the  *)
(* time before it takes the store lock, so it is two steps: the time is     *)
(* read, then the statement is executed under the lock.                     *)

\* datetime.isoformat() of the clock's value, as the code points of its text:
\* a clock value is a number of half seconds, the seconds are one digit, the
\* microseconds are left out when they are zero, "+" stands for "+00:00".
isoformat(t) ==
    IF t % 2 = 0 THEN <<48 + t \div 2, 43>>
    ELSE <<48 + t \div 2, 46, 53, 43>>

_now_iso == isoformat(clock)

\* The order of TEXT values in SQLite and of str in Python: code point by
\* code point, a proper prefix first.
TextLess(a, b) ==
    \/ \E i \in 1..Min(Len(a), Len(b)) :
          /\ a[i] < b[i]
          /\ \A j \in 1..(i - 1) : a[j] = b[j]
    \/ /\ Len(a) < Len(b)
       /\ \A j \in 1..Len(a) : a[j] = b[j]

\* The row of the INSERT: both timestamps are the time the call read.
Stamped(row, now) ==
    [f \in DOMAIN row \cup {"created_at", "updated_at"} |->
        IF f \in {"created_at", "updated_at"} THEN now ELSE row[f]]

\* Fault injection for C23: the object handed out is a view of the stored row.
_row_to_article_View(table, id) == [alias |-> TRUE, id |-> id]

\* _row_to_run / _row_to_brief / _row_to_article: a record object built from
\* the columns of the row.
_row_to_article(table, id) == [alias |-> FALSE, value |-> table[id]]

\* The fields a caller reads from a record object it holds, the table being
\* what it is by then.
Fields(table, object) == IF object.alias THEN table[object.id] ELSE object.value

\* get_run / get_brief / get_article: <<object>>, or <<>> for None.
get_article(table, user_id, id) ==
    IF id \in DOMAIN table /\ table[id].user_id = user_id
    THEN <<_row_to_article(table, id)>>
    ELSE <<>>

\* create_run / create_brief / create_article from the INSERT on: the table
\* it leaves and the object it returns, which is the one get_* gives.
Insert(table, user_id, now) ==
    LET id == ToString(Cardinality(DOMAIN table) + 1)
        inserted == Extend(table, id,
                        Stamped(ArticleRow(id, user_id, "quick_draft", Query,
                                           ArticleArtifacts), now))
    IN  [table |-> inserted, created |-> get_article(inserted, user_id, id)[1]]

\* _update_entity from the UPDATE on: the supplied allowed columns and
\* updated_at; nothing when no allowed column was supplied.
update_entity(table, id, kwargs, now) ==
    LET allowed == {"status", "stage", "progress_percent", "error", "artifacts"}
        updated == UpdateEntity([articles |-> table], "articles", id, kwargs).articles
    IN  IF DOMAIN kwargs \cap allowed = {} \/ id \notin DOMAIN table THEN table
        ELSE [updated EXCEPT ![id].updated_at = now]

\* Fault injection for C24: ORDER BY created_at ASC.
Precedes_Oldest(a, b) == TextLess(a.created_at, b.created_at)

\* ORDER BY created_at DESC: row a has to come before row b.
Precedes(a, b) == TextLess(b.created_at, a.created_at)

\* The orders SELECT ... WHERE user_id = ? ORDER BY created_at DESC may give:
\* rows of equal created_at come in any order.
Ordered(table, user_id) ==
    LET owned == {id \in DOMAIN table : table[id].user_id = user_id}
        n == Cardinality(owned)
    IN  {s \in [1..n -> owned] :
            /\ \A i \in 1..n : \A j \in 1..n : i # j => s[i] # s[j]
            /\ \A i \in 1..n : \A j \in 1..n :
                  i < j => ~ Precedes(table[s[j]], table[s[i]])}

\* list_runs / list_briefs / list_articles: the results LIMIT ? leaves, each
\* a sequence of record objects.
list_articles(table, user_id, limit) ==
    {[i \in 1..Min(limit, Len(s)) |-> _row_to_article(table, s[i])] :
        s \in Ordered(table, user_id)}

\* limit as callers may pass it; the routes leave it at its default, 100.
Limits == {0, 1, 2, 100}

Threads == {"loop", "worker"}

NoCall == [op |-> "none"]

\* The keyword arguments of the update calls of the model; the last one
\* names no column that an update may set.
StoreKwargs ==
    {[status |-> "running"],
     [stage |-> "writing_article", progress_percent |-> 84],
     [query |-> "another query"]}

TimedInit ==
    /\ rows = <<>>
    /\ clock = 0
    /\ calls = [thread \in Threads |-> NoCall]

---------------------------------------------------------------------------

PipelineInit ==
    /\ store = [t \in Tables |-> <<>>]
    /\ tasks = [t \in Tables |-> <<>>]
    /\ patches = {}
    /\ exports = <<>>
    /\ loop = <<>>

\* The sessions table is empty and no lookup is under way.
Workers == {"w1", "w2"}

NoLookup == [pc |-> "idle"]

AuthInit == auth = [sessions |-> <<>>, issued |-> 0, lookups |-> [w \in Workers |-> NoLookup]]

Init ==
    /\ TimedInit
    /\ PipelineInit
    /\ urlcall = NoUrlCall
    /\ AuthInit

\* A call of one of the URL services, its arguments drawn from the inputs.
UrlInit ==
    /\ TimedInit
    /\ PipelineInit
    /\ urlcall \in UrlCalls \cup SummarizerCalls
    /\ AuthInit

---------------------------------------------------------------------------
(* HTTP handlers that create a record and schedule its orchestrator. *)

HTTPException(status_code, detail) == [status_code |-> status_code, detail |-> detail]

Ok(body) == [status_code |-> 200, body |-> body]

\* What a handler has done when it returns: its response, and the records and
\* tasks it leaves.

\* Fault injection for C17: the article is inserted before the payload is
\* validated, and stays when the handler raises.
Raise_AfterCreate(exception) ==
    [response |-> exception,
     store |-> [store EXCEPT !.articles =
                    Extend(@, NewId("articles"),
                           ArticleRow(NewId("articles"), "u1", "quick_draft", "",
                                      ArticleArtifacts))],
     tasks |-> tasks]

\* raise HTTPException(...): the handler ends there, having written nothing.
Raise(exception) == [response |-> exception, store |-> store, tasks |-> tasks]

\* record = run_store.create_*(...); asyncio.create_task(process_*(...));
\* return record.  The record returned is the row just inserted.
Created(table, row, task) ==
    [response |-> Ok(row),
     store |-> [store EXCEPT ![table] = Extend(@, row.id, row)],
     tasks |-> [tasks EXCEPT ![table] = Extend(@, row.id, task)]]

\* The handler runs on the event loop, from its first statement to its return
\* without an await.
Commit(result) ==
    /\ Idle
    /\ store' = result.store
    /\ tasks' = result.tasks
    /\ UNCHANGED <<patches, exports, loop, timed, pure, auth>>

\* POST /api/runs
NewRun(user_id, sources) ==
    Created("runs", Row(NewId("runs"), user_id, Query, RunArtifacts),
            Task("process_run", Query, sources, None, ""))

create_run(user_id, sources) ==
    /\ NumRecords < MaxRecords
    /\ Commit(NewRun(user_id, sources))

\* POST /api/briefs
NewBrief(user_id, sources) ==
    Created("briefs", Row(NewId("briefs"), user_id, Query, BriefArtifacts),
            Task("process_brief", Query, sources, None, ""))

create_brief(user_id, sources) ==
    /\ NumRecords < MaxRecords
    /\ Commit(NewBrief(user_id, sources))

\* POST /api/articles

ArticleMode == {"from_brief", "from_custom_brief", "quick_draft"}

ArticleCreateRequest(mode, query, brief_id, custom_brief_markdown, sources) ==
    [mode |-> mode, query |-> query, brief_id |-> brief_id,
     custom_brief_markdown |-> custom_brief_markdown, sources |-> sources]

\* The handler create_article.  A mode outside ArticleMode does not pass the
\* validation of the body (422), so the handler's last line is never reached.
create_article(user_id, payload) ==
    LET id == NewId("articles")
        found == Get(store, "briefs", user_id, payload.brief_id)
        brief == found[1]
        brief_markdown == Strip(brief.artifacts.brief_markdown)
        custom_brief == Strip(payload.custom_brief_markdown)
    IN  CASE payload.mode \notin ArticleMode ->
                Raise(HTTPException(422, "Input should be 'from_brief', 'from_custom_brief' or 'quick_draft'"))
          [] payload.mode = "from_brief" ->
                IF payload.brief_id \in {None, ""}
                THEN Raise(HTTPException(400, "brief_id is required for from_brief mode"))
                ELSE IF found = <<>>
                THEN Raise(HTTPException(404, "Brief not found"))
                ELSE IF brief_markdown = ""
                THEN Raise(HTTPException(400, "Brief content is empty"))
                ELSE Created("articles",
                        ArticleRow(id, user_id, payload.mode, payload.query,
                            [ArticleArtifacts EXCEPT
                                !.source_brief_id = brief.id,
                                !.source_brief_markdown = brief_markdown]),
                        Task("process_article_from_brief", brief.query, NoSources,
                             brief.id, brief_markdown))
          [] payload.mode = "from_custom_brief" ->
                IF custom_brief = ""
                THEN Raise(HTTPException(400, "custom_brief_markdown is required"))
                ELSE IF Strip(payload.query) = ""
                THEN Raise(HTTPException(400, "query is required for custom brief mode"))
                ELSE Created("articles",
                        ArticleRow(id, user_id, payload.mode, payload.query,
                            [ArticleArtifacts EXCEPT !.source_brief_markdown = custom_brief]),
                        \* process_article_from_custom_brief passes source_brief_id ""
                        Task("process_article_from_custom_brief", Strip(payload.query),
                             NoSources, "", custom_brief))
          [] payload.mode = "quick_draft" ->
                IF Strip(payload.query) = ""
                THEN Raise(HTTPException(400, "query is required for quick draft mode"))
                ELSE Created("articles",
                        ArticleRow(id, user_id, payload.mode, payload.query, ArticleArtifacts),
                        Task("process_quick_draft", Strip(payload.query), payload.sources,
                             None, ""))

\* Bodies of POST /api/articles: every mode and one that is none, the query
\* left out, given and blank, the brief id left out, of no brief and of each
\* brief, the custom brief given and blank.
ArticlePayloads ==
    {ArticleCreateRequest(mode, query, brief_id, custom_brief_markdown, NoSources) :
        mode \in ArticleMode \cup {"rewrite"}, query \in {"", Query, Blank},
        brief_id \in DOMAIN store.briefs \cup {None, Absent},
        custom_brief_markdown \in CustomBriefs}

\* The bodies among them that differ from an accepted one in one field.
NearPayloads ==
    {ArticleCreateRequest("from_brief", "", brief_id, "", NoSources) :
        brief_id \in DOMAIN store.briefs \cup {None, Absent}}
    \cup {ArticleCreateRequest("from_custom_brief", Query, None, Blank, NoSources),
          ArticleCreateRequest("from_custom_brief", Blank, None, "a custom brief", NoSources),
          ArticleCreateRequest("quick_draft", Blank, None, "a custom brief", NoSources),
          ArticleCreateRequest("rewrite", Query, None, "a custom brief", NoSources)}

Accepted(result) == result.response.status_code = 200

\* mode from_brief, accepted.  payload.query keeps its default "".
create_article_from_brief(user_id, brief_id) ==
    LET result == create_article(user_id,
                      ArticleCreateRequest("from_brief", "", brief_id, "", NoSources))
    IN  /\ NumRecords < MaxRecords
        /\ Accepted(result)
        /\ Commit(result)

\* mode from_custom_brief, accepted.
create_article_from_custom_brief(user_id, custom_brief_markdown) ==
    LET result == create_article(user_id,
                      ArticleCreateRequest("from_custom_brief", Query, None,
                                           custom_brief_markdown, NoSources))
    IN  /\ NumRecords < MaxRecords
        /\ Accepted(result)
        /\ Commit(result)

\* mode quick_draft, accepted.
create_quick_draft(user_id, sources) ==
    LET result == create_article(user_id,
                      ArticleCreateRequest("quick_draft", Query, None, "", sources))
    IN  /\ NumRecords < MaxRecords
        /\ Accepted(result)
        /\ Commit(result)

\* Any mode, rejected.
create_article_rejected(user_id, payload) ==
    LET result == create_article(user_id, payload)
    IN  /\ ~ Accepted(result)
        /\ Commit(result)

---------------------------------------------------------------------------
(* GET /api/<table>/{id} and GET /api/<table>: the read handlers, as the   *)
(* response they give in the current state.                                *)

\* get_run / get_brief / get_article of the routes: 404 when the store has no
\* row of that id for the caller.
get_record(table, user_id, id) ==
    LET found == Get(store, table, user_id, id)
    IN  IF found = <<>> THEN HTTPException(404, "not found") ELSE Ok(found[1])

list_records(table, user_id) == Ok(List(store, table, user_id))

---------------------------------------------------------------------------
(* The application main.py assembles, and the session dependency of the    *)
(* routes, as the response a request gets.                                 *)

\* The fields of the Settings dataclass.
SettingsFields ==
    {"openai_api_key", "small_model", "analyst_model", "writer_model", "max_urls",
     "app_host", "app_port", "session_ttl_days", "cookie_secure"}

\* app.include_router: the routers main.py mounts.
MountedRouters == {"runs"}

Endpoint(router, method, path) == [router |-> router, method |-> method, path |-> path]

Health == Endpoint("runs", "GET", "/api/health")

\* The endpoints the four routers declare.
Endpoints ==
    {Health,
     Endpoint("runs", "GET", "/api/runs"), Endpoint("runs", "POST", "/api/runs"),
     Endpoint("runs", "GET", "/api/runs/{run_id}"),
     Endpoint("briefs", "GET", "/api/briefs"), Endpoint("briefs", "POST", "/api/briefs"),
     Endpoint("briefs", "GET", "/api/briefs/{brief_id}"),
     Endpoint("briefs", "PATCH", "/api/briefs/{brief_id}"),
     Endpoint("articles", "GET", "/api/articles"),
     Endpoint("articles", "POST", "/api/articles"),
     Endpoint("articles", "GET", "/api/articles/{article_id}"),
     Endpoint("settings", "GET", "/api/settings"),
     Endpoint("settings", "PUT", "/api/settings")}

\* The rows of the sessions table: one live session and one past its expires_at.
Sessions ==
    [live |-> [user_id |-> "u1", expired |-> FALSE],
     old |-> [user_id |-> "u1", expired |-> TRUE]]

\* The session_token cookie of a request: absent, of no session, expired, live.
Tokens == {None, "forged", "old", "live"}

Requests == [endpoint : Endpoints, token : Tokens]

\* get_user_by_session: the user of the session, or None when no session has
\* the token or the session has expired (the expired row is then deleted).
get_user_by_session(token) ==
    IF token \notin DOMAIN Sessions THEN None
    ELSE IF Sessions[token].expired THEN None
    ELSE Sessions[token].user_id

\* Depends(get_current_user): 401 raised before the handler body, or the user
\* the handler body then runs for.
get_current_user(request) ==
    IF request.token = None THEN HTTPException(401, "Not authenticated")
    ELSE IF get_user_by_session(request.token) = None
    THEN HTTPException(401, "Session expired or invalid")
    ELSE Ok(get_user_by_session(request.token))

\* The router: no route, health, or an endpoint behind get_current_user.
call_next(request) ==
    IF request.endpoint.router \notin MountedRouters THEN HTTPException(404, "Not Found")
    ELSE IF request.endpoint = Health THEN Ok("ok")
    ELSE get_current_user(request)

\* auth_middleware runs first for every request.  _is_auth_enabled reads
\* settings.app_login_user, a field Settings does not have: AttributeError
\* leaves the middleware and the server answers 500.
auth_middleware(request) ==
    IF "app_login_user" \notin SettingsFields
    THEN HTTPException(500, "Internal Server Error")
    ELSE call_next(request)

\* What a request has brought about when its handler body is about to start,
\* or when it has been answered without one: the response so far, and the
\* records and tasks, which neither the middleware nor the dependency writes.
Serve(request) ==
    [response |-> auth_middleware(request), store |-> store, tasks |-> tasks]

---------------------------------------------------------------------------
(* PATCH /api/briefs/{id}: routes_briefs.update_brief, a sync handler. *)

\* The handlers in flight once this one has done its get_brief: 404 (the
\* handler ends, it will write nothing) or the copy of the artifacts with
\* the new markdown, which it is about to write.
PatchRead(user_id, brief_id, brief_markdown) ==
    LET found == Get(store, "briefs", user_id, brief_id)
        brief == found[1]
    IN  IF found = <<>> THEN patches
        ELSE patches \cup {[user_id |-> user_id, brief_id |-> brief_id,
                            kwargs |-> PatchKwargs(brief.artifacts, brief_markdown)]}

\* Every body passes the validation.
BriefUpdateRequest_AnyLength(brief_markdown) == TRUE

\* brief_markdown: str = Field(min_length=20)
BriefUpdateRequest(brief_markdown) == Len(brief_markdown) >= 20

\* PATCH /api/briefs/{id} up to the handler's write: a body that fails
\* BriefUpdateRequest is answered 422 and the handler is not called; otherwise
\* the handler calls get_brief and answers 404 or goes on to its write.
Patch(user_id, brief_id, brief_markdown) ==
    IF ~ BriefUpdateRequest(brief_markdown)
    THEN [status_code |-> 422, store_calls |-> <<>>, patches |-> patches]
    ELSE [status_code |-> IF Get(store, "briefs", user_id, brief_id) = <<>>
                          THEN 404 ELSE 200,
          store_calls |-> <<"get_brief">>,
          patches |-> PatchRead(user_id, brief_id, brief_markdown)]

patch_read(user_id, brief_id, brief_markdown) ==
    /\ Cardinality(patches) < MaxPatches
    /\ patches' = Patch(user_id, brief_id, brief_markdown).patches
    /\ UNCHANGED <<store, tasks, exports, loop, timed, pure, auth>>

\* update_brief(brief_id, artifacts=artifacts, stage="edited_draft"), and the
\* handler returns.
patch_write(patch) ==
    /\ store' = update_brief(store, patch.brief_id, patch.kwargs)
    /\ patches' = patches \ {patch}
    /\ UNCHANGED <<tasks, exports, loop, timed, pure, auth>>

---------------------------------------------------------------------------
(* workers/scheduler.py *)

\* The interval job.  run_store.list_queued_runs() raises AttributeError, the
\* store defining no such method: the job ends there, starts no task and
\* writes nothing.
_retry_stuck_runs ==
    /\ Idle
    /\ IF "list_queued_runs" \notin StoreMethods
       THEN UNCHANGED vars
       ELSE \* lines 15-27: a process_run task for every run found queued
            /\ tasks' = [tasks EXCEPT !.runs =
                    [id \in DOMAIN @ |->
                        IF store.runs[id].status = "queued" /\ @[id].launched < MaxLaunches
                        THEN [@[id] EXCEPT !.pc = "start", !.launched = @ + 1]
                        ELSE @[id]]]
            /\ UNCHANGED <<store, patches, exports, loop, timed, pure, auth>>

---------------------------------------------------------------------------
(* The orchestrators: workflows/*.py *)

NoUrlsMsg == "No qualifying URLs found. Provide seed URLs or citation text containing links."
NoContentMsg == "Could not extract content from selected URLs."
FallbackAnalysis ==
    "No competitor sources were provided. This brief is based on the query only and should be reviewed."

ValueError(msg) == [type |-> "ValueError", msg |-> msg]

AttributeError == [type |-> "AttributeError", msg |-> "object has no attribute 'update'"]

\* Fault injection for C5: no except ValueError clause.
IsValueError_Never(exc) == FALSE

\* except ValueError: the clause of the inner try of process_brief and
\* process_quick_draft.
IsValueError(exc) == exc.type = "ValueError"

SetTask(table, id, task) ==
    /\ tasks' = [tasks EXCEPT ![table][id] = task]
    /\ UNCHANGED <<timed, pure, auth>>

\* except Exception as exc: the record is marked failed and the coroutine returns.
Fail(table, id, exc) ==
    LET t == tasks[table][id]
    IN  /\ loop' = <<>>
        /\ store' = Update(store, table, id, FailedKwargs(exc))
        /\ SetTask(table, id,
              [t EXCEPT !.pc = "done",
                        !.raised = @ \cup {exc}])

\* An exception raised inside the inner try: a ValueError enters the
\* query-only branch, which persists the building stage before it calls the
\* model; any other exception reaches the outer handler.  process_brief
\* resets top_urls, extracted and summaries there; process_quick_draft reads
\* none of them afterwards, and the task keeps no local that is not read again.
RaiseInner(table, id, exc) ==
    LET t == tasks[table][id]
    IN  IF IsValueError(exc)
        THEN /\ loop' = <<table, id>>
             /\ store' = Update(store, table, id, BuildingKwargs(t.fn))
             /\ SetTask(table, id,
                   [t EXCEPT !.pc = "build_fallback", !.fallback = TRUE,
                             !.top_urls = <<>>, !.results = <<>>,
                             !.summaries = <<>>,
                             !.seo_analysis = IF t.fn = "process_brief"
                                              THEN FallbackAnalysis ELSE "",
                             !.raised = @ \cup {exc}])
        ELSE Fail(table, id, exc)

\* process_run, line 24: run_store.update is looked up before the try block.
\* The store defines no method update, so AttributeError leaves the coroutine
\* and the task ends with the record as create_run wrote it.
process_run(id) ==
    LET t == tasks["runs"][id]
    IN  /\ Idle
        /\ t.pc = "start"
        /\ "update" \notin StoreMethods
        /\ SetTask("runs", id,
              [t EXCEPT !.pc = "crashed",
                        !.raised = @ \cup {AttributeError}])
        /\ UNCHANGED <<store, patches, exports, loop>>

\* The first statement of process_brief, process_article_from_brief and
\* process_quick_draft: the update to running.
start(table, id) ==
    LET t == tasks[table][id]
    IN  /\ Idle
        /\ t.pc = "start"
        /\ t.fn # "process_run"
        /\ loop' = <<table, id>>
        /\ store' = Update(store, table, id, RunningKwargs(t.fn))
        /\ SetTask(table, id,
              [t EXCEPT !.pc = IF t.fn \in {"process_brief", "process_quick_draft"}
                               THEN "collect" ELSE "write"])
        /\ UNCHANGED <<patches, exports>>

\* build_source_analysis up to the await of asyncio.gather, which gives up
\* the event loop.
collect(table, id) ==
    LET t == tasks[table][id]
        candidates == collect_seed_urls(t.seed_urls, t.ai_citations_text, t.ai_overview_text)
        top_urls == select_top_urls(candidates, settings_max_urls)
    IN  /\ Runs(table, id)
        /\ t.pc = "collect"
        /\ IF top_urls = <<>>
           THEN RaiseInner(table, id, ValueError(NoUrlsMsg))
           ELSE /\ SetTask(table, id,
                      [t EXCEPT !.pc = "extracting", !.top_urls = top_urls,
                                !.results = [i \in 1..Len(top_urls) |-> Pending]])
                /\ loop' = <<>>
                /\ UNCHANGED store
        /\ UNCHANGED <<patches, exports>>

\* One of the gathered extract_url_content coroutines finishes.
extract(table, id, k) ==
    LET t == tasks[table][id]
    IN  /\ Idle
        /\ t.pc = "extracting"
        /\ k \in DOMAIN t.results
        /\ t.results[k] = Pending
        /\ SetTask(table, id,
              [t EXCEPT !.results[k] = extract_url_content(t.top_urls[k])])
        /\ UNCHANGED <<store, patches, exports, loop>>

\* One failed extraction aborts the batch: nothing is extracted.
Extracted_AllOrNothing(results) ==
    IF \E k \in DOMAIN results : IsException(results[k]) THEN <<>> ELSE results

RECURSIVE Extracted(_)
\* The loop over results: the results that are no exception, in order.
Extracted(results) ==
    IF results = <<>> THEN <<>>
    ELSE IF IsException(Head(results))
         THEN Extracted(Tail(results))
         ELSE <<Head(results)>> \o Extracted(Tail(results))

\* The orchestrator does not wait for the gather: it goes on to the building
\* stage while extractions may still be under way.
analyze_BeforeGathered(table, id, summarizing, analyzing) ==
    LET t == tasks[table][id]
    IN  /\ Idle
        /\ t.pc = "extracting"
        /\ loop' = <<table, id>>
        /\ store' = Update(store, table, id, BuildingKwargs(t.fn))
        /\ SetTask(table, id, [t EXCEPT !.pc = "build"])
        /\ UNCHANGED <<patches, exports>>

\* The orchestrator resumes after the gather: the rest of
\* build_source_analysis, then the update persisting the building stage.
\* summarizing is what the model calls of the summaries do, analyzing what
\* the call of analyze_summaries does.
analyze(table, id, summarizing, analyzing) ==
    LET t == tasks[table][id]
        extracted == Extracted(t.results)
        blank == \/ analyzing = "empty"
                 \/ /\ summarizing = "empty"
                    /\ \E k \in DOMAIN extracted : NeedsModel(extracted[k])
    IN  /\ Idle
        /\ t.pc = "extracting"
        /\ \A k \in DOMAIN t.results : t.results[k] # Pending
        /\ IF extracted = <<>>
           THEN RaiseInner(table, id, ValueError(NoContentMsg))
           ELSE IF ~ Returns(summarizing)
                   /\ \E k \in DOMAIN extracted : NeedsModel(extracted[k])
           THEN RaiseInner(table, id, Raised(summarizing))
           ELSE IF ~ Returns(analyzing)
           THEN RaiseInner(table, id, Raised(analyzing))
           ELSE /\ loop' = <<table, id>>
                /\ store' = Update(store, table, id, BuildingKwargs(t.fn))
                /\ SetTask(table, id,
                      IF t.fn = "process_brief"
                      THEN [t EXCEPT !.pc = "build",
                                     !.blank = @ \/ blank,
                                     !.summaries =
                                         [k \in DOMAIN extracted |->
                                             summarize_article(extracted[k], summarizing)],
                                     !.seo_analysis =
                                         Complete("ANALYSIS_INSTRUCTION", analyzing)]
                      ELSE [t EXCEPT !.pc = "build",
                                     !.blank = @ \/ blank,
                                     !.top_urls = <<>>, !.results = <<>>])
        /\ UNCHANGED <<patches, exports>>

\* After the brief text is there: process_brief completes the record,
\* process_quick_draft persists the writing stage.
Built(table, id, brief_markdown) ==
    LET t == tasks[table][id]
    IN  IF t.fn = "process_brief"
        THEN /\ loop' = <<>>
             /\ store' = Update(store, table, id,
                    CompletedKwargs(
                        [sources |-> t.top_urls,
                         extracted_articles |-> Extracted(t.results),
                         summaries |-> t.summaries,
                         seo_analysis |-> t.seo_analysis,
                         brief_markdown |-> brief_markdown]))
             /\ SetTask(table, id,
                   [t EXCEPT !.pc = "done", !.brief_markdown = brief_markdown,
                             !.blank = @ \/ brief_markdown = ""])
        ELSE /\ UNCHANGED loop
             /\ store' = Update(store, table, id, WritingKwargs)
             /\ SetTask(table, id,
                   [t EXCEPT !.pc = "write", !.brief_markdown = brief_markdown,
                             !.blank = @ \/ brief_markdown = ""])

\* build_brief_with_customization, inside the inner try.
build_brief(table, id, outcome) ==
    LET t == tasks[table][id]
    IN  /\ Runs(table, id)
        /\ t.pc = "build"
        /\ IF Returns(outcome)
           THEN Built(table, id, Complete("BRIEF_INSTRUCTION", outcome))
           ELSE RaiseInner(table, id, Raised(outcome))
        /\ UNCHANGED <<patches, exports>>

\* build_brief_from_query_with_customization, inside the except ValueError
\* clause: what it raises reaches the outer handler.
build_fallback_brief(table, id, outcome) ==
    LET t == tasks[table][id]
    IN  /\ Runs(table, id)
        /\ t.pc = "build_fallback"
        /\ IF Returns(outcome)
           THEN Built(table, id, Complete("FALLBACK_BRIEF_INSTRUCTION", outcome))
           ELSE Fail(table, id, Raised(outcome))
        /\ UNCHANGED <<patches, exports>>

\* write_article_from_brief_with_customization, then the update persisting
\* the exporting stage.
write(table, id, outcome) ==
    LET t == tasks[table][id]
    IN  /\ Runs(table, id)
        /\ t.pc = "write"
        /\ IF Returns(outcome)
           THEN /\ UNCHANGED loop
                /\ store' = Update(store, table, id, ExportingKwargs(t.fn))
                /\ SetTask(table, id,
                      [t EXCEPT !.pc = "export",
                                !.blank = @ \/ outcome = "empty",
                                !.article_markdown =
                                    Complete("BRIEF_WRITER_INSTRUCTION", outcome)])
           ELSE Fail(table, id, Raised(outcome))
        /\ UNCHANGED <<patches, exports>>

\* export_to_local_doc writes the file; then the update to completed.
export(table, id, outcome) ==
    LET t == tasks[table][id]
        export_link == ToString(Len(exports) + 1)
    IN  /\ Runs(table, id)
        /\ t.pc = "export"
        /\ IF outcome = "returns"
           THEN /\ loop' = <<>>
                /\ exports' = Append(exports,
                      [path |-> export_link, text |-> t.article_markdown])
                /\ store' = Update(store, table, id,
                      CompletedKwargs(
                          [source_brief_id |-> t.source_brief_id,
                           source_brief_markdown |-> t.brief_markdown,
                           article_markdown |-> t.article_markdown,
                           export_link |-> export_link]))
                /\ SetTask(table, id, [t EXCEPT !.pc = "done"])
           ELSE /\ Fail(table, id, Raised(outcome))
                /\ UNCHANGED exports
        /\ UNCHANGED patches

---------------------------------------------------------------------------

Ids(table) == DOMAIN tasks[table]

Next ==
    \/ \E u \in Creators, src \in RequestSources : create_run(u, src)
    \/ \E u \in Creators, src \in RequestSources : create_brief(u, src)
    \/ \E u \in Users, b \in DOMAIN store.briefs : create_article_from_brief(u, b)
    \/ \E u \in Creators, md \in CustomBriefs : create_article_from_custom_brief(u, md)
    \/ \E u \in Creators, src \in RequestSources : create_quick_draft(u, src)
    \/ \E u \in Users, payload \in NearPayloads : create_article_rejected(u, payload)
    \/ \E u \in Users, b \in DOMAIN store.briefs \cup {Absent},
          md \in PatchBodies \cup ShortBodies :
            patch_read(u, b, md)
    \/ \E patch \in patches : patch_write(patch)
    \/ _retry_stuck_runs
    \/ \E id \in Ids("runs") : process_run(id)
    \/ \E table \in {"briefs", "articles"} : \E id \in Ids(table) : start(table, id)
    \/ \E table \in {"briefs", "articles"} : \E id \in Ids(table) : collect(table, id)
    \/ \E table \in {"briefs", "articles"} : \E id \in Ids(table), k \in 1..settings_max_urls :
            extract(table, id, k)
    \/ \E table \in {"briefs", "articles"} : \E id \in Ids(table), o1 \in Outcomes, o2 \in Outcomes :
            analyze(table, id, o1, o2)
    \/ \E table \in {"briefs", "articles"} : \E id \in Ids(table), o \in Outcomes :
            build_brief(table, id, o)
    \/ \E table \in {"briefs", "articles"} : \E id \in Ids(table), o \in OuterOutcomes :
            build_fallback_brief(table, id, o)
    \/ \E id \in Ids("articles"), o \in OuterOutcomes : write("articles", id, o)
    \/ \E id \in Ids("articles"), o \in ExportOutcomes : export("articles", id, o)

Spec == Init /\ [][Next]_vars

---------------------------------------------------------------------------
(* The store with its timestamps: the calls of its callers' threads. *)

Creating == {thread \in Threads : calls[thread].op = "create"}

tick ==
    /\ clock < MaxClock
    /\ clock' = clock + 1
    /\ UNCHANGED <<rows, calls, pipeline, pure, auth>>

\* create_*: record_id = str(uuid4()); now = self._now_iso()
create_begin(thread, user_id) ==
    /\ calls[thread] = NoCall
    /\ Cardinality(DOMAIN rows) + Cardinality(Creating) < MaxRows
    /\ calls' = [calls EXCEPT ![thread] =
                    [op |-> "create", user_id |-> user_id, now |-> _now_iso]]
    /\ UNCHANGED <<rows, clock, pipeline, pure, auth>>

\* create_*: with self._lock: INSERT, commit; return self.get_*(...)
create_end(thread) ==
    /\ calls[thread].op = "create"
    /\ rows' = Insert(rows, calls[thread].user_id, calls[thread].now).table
    /\ calls' = [calls EXCEPT ![thread] = NoCall]
    /\ UNCHANGED <<clock, pipeline, pure, auth>>

\* _update_entity up to the lock: the columns and values, updated_at among them.
update_begin(thread, id, kwargs) ==
    /\ calls[thread] = NoCall
    /\ id \in DOMAIN rows
    /\ calls' = [calls EXCEPT ![thread] =
                    [op |-> "update", id |-> id, kwargs |-> kwargs, now |-> _now_iso]]
    /\ UNCHANGED <<rows, clock, pipeline, pure, auth>>

\* _update_entity: with self._lock: UPDATE, commit; return getter(record_id)
update_end(thread) ==
    /\ calls[thread].op = "update"
    /\ rows' = update_entity(rows, calls[thread].id, calls[thread].kwargs,
                             calls[thread].now)
    /\ calls' = [calls EXCEPT ![thread] = NoCall]
    /\ UNCHANGED <<clock, pipeline, pure, auth>>

StoreNext ==
    \/ tick
    \/ \E thread \in Threads, user_id \in Users : create_begin(thread, user_id)
    \/ \E thread \in Threads : create_end(thread)
    \/ \E thread \in Threads, id \in DOMAIN rows, kwargs \in StoreKwargs :
            update_begin(thread, id, kwargs)
    \/ \E thread \in Threads : update_end(thread)

StoreSpec == Init /\ [][StoreNext]_vars

---------------------------------------------------------------------------
(* The URL services: the call returns. *)

Called(op) == urlcall.op = op /\ urlcall.result = <<>>

Return(value) ==
    /\ urlcall' = [urlcall EXCEPT !.result = <<value>>]
    /\ UNCHANGED <<pipeline, timed, auth>>

return_collect_seed_urls ==
    /\ Called("collect_seed_urls")
    /\ Return(collect_seed_urls(urlcall.args.seed_urls, urlcall.args.ai_citations_text,
                                urlcall.args.ai_overview_text))

return_is_acceptable_url ==
    /\ Called("is_acceptable_url")
    /\ Return(is_acceptable_url(urlcall.args.url))

return_select_top_urls ==
    /\ Called("select_top_urls")
    /\ Return(select_top_urls(urlcall.args.urls, urlcall.args.max_urls))

return_summarize_article ==
    /\ Called("summarize_article")
    /\ Return(Summarized(urlcall.args.article, urlcall.args.outcome))

UrlNext ==
    \/ return_collect_seed_urls
    \/ return_is_acceptable_url
    \/ return_select_top_urls
    \/ return_summarize_article

UrlSpec == UrlInit /\ [][UrlNext]_vars


---------------------------------------------------------------------------
(* What the claims speak of. *)

Terminal == {"completed", "failed"}

\* The coroutine of the task has ended: it returned, or an exception left it.
Ended(task) == task.pc \in {"done", "crashed"}

\* The two errors build_source_analysis (and process_run) raise themselves.
NoSourcesErrors == {ValueError(NoUrlsMsg), ValueError(NoContentMsg)}

\* The URLs selected for the sources a task was started with.
Selected(task) ==
    select_top_urls(
        collect_seed_urls(task.seed_urls, task.ai_citations_text, task.ai_overview_text),
        settings_max_urls)

\* No URL qualifies, or no selected URL can be extracted.
NothingUsable(task) ==
    \A k \in DOMAIN Selected(task) : IsException(extract_url_content(Selected(task)[k]))

\* Every model call the task has made so far returned a text, not whitespace
\* only.
ReturnedText(task) == ~ task.blank

SourceTasks(table) ==
    {id \in Ids(table) : tasks[table][id].fn \in {"process_brief", "process_quick_draft"}}

\* The final text of a record: the brief of a brief, the article of a run or article.
FinalText(table, id) ==
    IF table = "briefs" THEN store[table][id].artifacts.brief_markdown
    ELSE store[table][id].artifacts.article_markdown

---------------------------------------------------------------------------
(* C1 (stated as the claim; the code violates it): once the coroutine of a  *)
(* scheduled orchestrator has ended, its record is in a terminal status,    *)
(* completed or failed; no record is left queued or running.                *)
C1_EndedOrchestratorLeavesTerminalStatus ==
    \A table \in Tables : \A id \in Ids(table) :
        Ended(tasks[table][id]) => store[table][id].status \in Terminal

---------------------------------------------------------------------------
(* C2: the status of a record only moves forward: a completed or failed    *)
(* record never changes status again and a running record never returns to *)
(* queued, whatever orchestrators, PATCH handlers and the sweep do.         *)
C2_StatusOnlyMovesForward ==
    [][\A table \in Tables : \A id \in DOMAIN store[table] :
          /\ store[table][id].status \in Terminal
                => store'[table][id].status = store[table][id].status
          /\ store[table][id].status = "running"
                => store'[table][id].status # "queued"]_vars

\* A PATCH has been written to a brief that had completed, and a brief is
\* running while a PATCH of it is in flight.
C2_Witness ==
    /\ \E id \in DOMAIN store.briefs :
          /\ store.briefs[id].status = "completed"
          /\ store.briefs[id].stage = "edited_draft"
    /\ \E patch \in patches : store.briefs[patch.brief_id].status = "running"

---------------------------------------------------------------------------
(* C3 (stated as the claim; the code violates it): when a step of an        *)
(* orchestrator has raised an exception other than the two no-sources       *)
(* errors, the record is failed with stage failed, progress 100 and the     *)
(* message of that exception as error, and the invocation has stopped.      *)
C3_OtherExceptionFailsTheRecord ==
    \A table \in Tables : \A id \in Ids(table) :
        \A exc \in tasks[table][id].raised \ NoSourcesErrors :
            /\ tasks[table][id].pc = "done"
            /\ store[table][id].status = "failed"
            /\ store[table][id].stage = "failed"
            /\ store[table][id].progress_percent = 100
            /\ store[table][id].error = exc.msg

---------------------------------------------------------------------------
(* C4 (stated as the claim; the code violates it): process_brief and        *)
(* process_quick_draft enter the query-only fallback only after one of the  *)
(* two no-sources errors, and any other exception raised in them ends the   *)
(* record failed.                                                           *)
C4_FallbackOnlyForNoSources ==
    \A table \in Tables : \A id \in SourceTasks(table) :
        /\ tasks[table][id].fallback
              => tasks[table][id].raised \cap NoSourcesErrors # {}
        /\ tasks[table][id].raised \ NoSourcesErrors # {}
              => store[table][id].status = "failed"

---------------------------------------------------------------------------
---------------------------------------------------------------------------
(* C6 (stated as the claim; the code violates it): a run none of whose URLs *)
(* qualifies or can be extracted ends failed with a non-empty error, with   *)
(* no article and no export.                                                *)
C6_RunWithoutSourcesFails ==
    \A id \in Ids("runs") :
        (Ended(tasks.runs[id]) /\ NothingUsable(tasks.runs[id]))
        => /\ store.runs[id].status = "failed"
           /\ store.runs[id].error \notin {None, ""}
           /\ store.runs[id].artifacts.article_markdown = ""
           /\ store.runs[id].artifacts.export_link = None

---------------------------------------------------------------------------
(* C7 (stated as the claim; the code violates it): a run with a qualifying  *)
(* URL that can be extracted, no model or export call of which raised, ends *)
(* completed with the selected URLs as sources, a non-empty article and an  *)
(* export link.                                                             *)
C7_RunWithSourcesCompletes ==
    \A id \in Ids("runs") :
        ( /\ Ended(tasks.runs[id])
          /\ ~ NothingUsable(tasks.runs[id])
          /\ \A o \in Outcomes : Raised(o) \notin tasks.runs[id].raised )
        => /\ store.runs[id].status = "completed"
           /\ store.runs[id].artifacts.sources = Selected(tasks.runs[id])
           /\ store.runs[id].artifacts.article_markdown # ""
           /\ store.runs[id].artifacts.export_link # None

---------------------------------------------------------------------------
(* C8: the progress_percent of every record is within 0..100 and no step    *)
(* lowers it, the update written on failure included.                       *)
C8_ProgressNeverDecreases ==
    [][\A table \in Tables :
          /\ \A id \in DOMAIN store'[table] :
                store'[table][id].progress_percent \in 0..100
          /\ \A id \in DOMAIN store[table] :
                store'[table][id].progress_percent >= store[table][id].progress_percent]_vars

\* A quick draft has failed in its export, after the checkpoint at 95, and a
\* brief has failed at its start of the building, after the checkpoint at 10.
C8_Witness ==
    /\ \E id \in Ids("articles") :
          /\ tasks.articles[id].fn = "process_quick_draft"
          /\ tasks.articles[id].article_markdown # ""
          /\ store.articles[id].status = "failed"
          /\ store.articles[id].progress_percent = 100
    /\ \E id \in Ids("briefs") :
          /\ store.briefs[id].status = "failed"
          /\ store.briefs[id].progress_percent = 100

---------------------------------------------------------------------------
(* C9: the error of a record is set only if its status is failed, and a     *)
(* record an orchestrator has moved to running has no error.                *)
C9_ErrorOnlyWhenFailed ==
    \A table \in Tables : \A id \in DOMAIN store[table] :
        /\ store[table][id].error # None => store[table][id].status = "failed"
        /\ store[table][id].status = "running" => store[table][id].error = None

\* One record has failed with its error set while another is running.
C9_Witness ==
    /\ \E table \in Tables : \E id \in DOMAIN store[table] :
          /\ store[table][id].status = "failed"
          /\ store[table][id].error # None
    /\ \E table \in Tables : \E id \in DOMAIN store[table] :
          /\ store[table][id].status = "running"
          /\ store[table][id].progress_percent > 10

---------------------------------------------------------------------------
(* C10 (stated as the claim; the code violates it): a completed record has *)
(* its final artifact: a non-empty article_markdown and an export_link for  *)
(* a run or an article, a non-empty brief_markdown for a brief; and a run   *)
(* or article has an export_link only when it is completed.                 *)
C10_CompletedHasFinalArtifact ==
    /\ \A table \in {"runs", "articles"} : \A id \in DOMAIN store[table] :
          /\ store[table][id].status = "completed"
                => /\ store[table][id].artifacts.article_markdown # ""
                   /\ store[table][id].artifacts.export_link # None
          /\ store[table][id].artifacts.export_link # None
                => store[table][id].status = "completed"
    /\ \A id \in DOMAIN store.briefs :
          store.briefs[id].status = "completed"
                => store.briefs[id].artifacts.brief_markdown # ""

---------------------------------------------------------------------------
\* The artifacts fields that hold a list; the others hold a text or None.
ListFields == {"sources", "extracted_articles", "summaries"}

\* The value of the artifacts field is its default: an empty list, an empty
\* text or None.
Unset(field, value) ==
    IF field \in ListFields THEN value = <<>> ELSE value \in {"", None}

(* C11 (stated as the claim; the code violates it): artifacts are           *)
(* append-only: no step, of an orchestrator or of a PATCH interleaved with  *)
(* it, resets to empty or null an artifacts field of a record that held a   *)
(* non-empty value.                                                         *)
C11_ArtifactsAppendOnly ==
    [][\A table \in Tables : \A id \in DOMAIN store[table] :
          \A field \in DOMAIN store[table][id].artifacts :
              ~ Unset(field, store[table][id].artifacts[field])
                  => ~ Unset(field, store'[table][id].artifacts[field])]_vars

---------------------------------------------------------------------------
\* The step is the write of an in-flight PATCH handler.
PatchWritten(patch) == patch \in patches /\ patches' = patches \ {patch}

(* C12 (stated as the claim; the code violates it): the write of a PATCH    *)
(* sets brief_markdown of the brief to the submitted text and its stage to  *)
(* edited_draft and leaves everything else as it was: status,               *)
(* progress_percent, error, query, the other artifacts fields and every     *)
(* other record; a PATCH of a brief that is absent, or not the caller's,    *)
(* writes nothing.                                                          *)
C12_PatchChangesOnlyMarkdownAndStage ==
    [][/\ \A patch \in patches : PatchWritten(patch) =>
            store' = [store EXCEPT
                        !.briefs[patch.brief_id].artifacts.brief_markdown =
                            patch.kwargs.artifacts.brief_markdown,
                        !.briefs[patch.brief_id].stage = "edited_draft"]
       /\ \A user_id \in Users : \A brief_id \in DOMAIN store.briefs \cup {Absent} :
            \A brief_markdown \in PatchBodies :
               Get(store, "briefs", user_id, brief_id) = <<>>
                  => PatchRead(user_id, brief_id, brief_markdown) = patches]_vars

---------------------------------------------------------------------------
(* C13 (stated as the claim; the code violates it): a step that creates an  *)
(* article in from_brief mode finds the referenced brief owned by the       *)
(* caller and in status completed; a queued, running or failed brief is     *)
(* never the source of an article.                                          *)
C13_FromBriefRequiresCompletedBrief ==
    [][\A id \in DOMAIN store'.articles \ DOMAIN store.articles :
          store'.articles[id].mode = "from_brief" =>
             LET brief_id == store'.articles[id].artifacts.source_brief_id
             IN  /\ brief_id \in DOMAIN store.briefs
                 /\ store.briefs[brief_id].user_id = store'.articles[id].user_id
                 /\ store.briefs[brief_id].status = "completed"]_vars

---------------------------------------------------------------------------
(* C14: no step of an article orchestrator, in any mode, and no creation of *)
(* an article changes the set of brief records or a field of a brief:       *)
(* from_brief never writes to the brief it reads and quick_draft stores no  *)
(* brief.                                                                   *)
C14_ArticleStepsLeaveBriefsAlone ==
    [][tasks'.articles # tasks.articles => store'.briefs = store.briefs]_vars

\* An article written from a brief has run to completion next to that brief.
C14_Witness ==
    \E id \in Ids("articles") :
        /\ tasks.articles[id].fn = "process_article_from_brief"
        /\ tasks.articles[id].pc = "done"
        /\ store.articles[id].status = "completed"
        /\ tasks.articles[id].source_brief_id \in DOMAIN store.briefs

---------------------------------------------------------------------------
(* C15: a record is visible and usable only by the user who owns it.  GET   *)
(* by id answers 404 to every other user, a list holds only the caller's    *)
(* records, a PATCH in flight was started by the owner of its brief (for    *)
(* anyone else the handler ends at its 404 with nothing to write), and an   *)
(* article written from a brief belongs to the owner of that brief.         *)
C15_OwnerIsolation ==
    /\ \A table \in Tables : \A user_id \in Users :
          /\ \A id \in DOMAIN store[table] \cup {Absent} :
                IF id \in DOMAIN store[table] /\ store[table][id].user_id = user_id
                THEN get_record(table, user_id, id) = Ok(store[table][id])
                ELSE get_record(table, user_id, id).status_code = 404
          /\ \A row \in list_records(table, user_id).body : row.user_id = user_id
    /\ \A user_id \in Users : \A brief_id \in DOMAIN store.briefs :
          \A brief_markdown \in PatchBodies :
             store.briefs[brief_id].user_id # user_id
                => PatchRead(user_id, brief_id, brief_markdown) = patches
    /\ \A patch \in patches : store.briefs[patch.brief_id].user_id = patch.user_id
    /\ \A id \in DOMAIN store.articles :
          store.articles[id].mode = "from_brief" =>
             LET brief_id == store.articles[id].artifacts.source_brief_id
             IN  store.briefs[brief_id].user_id = store.articles[id].user_id

\* A brief has an owner and a stranger, the owner has a PATCH of it in flight
\* and has written an article from it.
C15_Witness ==
    \E brief_id \in DOMAIN store.briefs : \E stranger \in Users :
        /\ store.briefs[brief_id].user_id # stranger
        /\ get_record("briefs", stranger, brief_id).status_code = 404
        /\ \E patch \in patches : patch.brief_id = brief_id
        /\ \E id \in DOMAIN store.articles :
              store.articles[id].artifacts.source_brief_id = brief_id

---------------------------------------------------------------------------
(* C16 (stated as the claim; the code violates it): every request to a      *)
(* runs, briefs, articles or settings endpoint whose session token is       *)
(* missing, unknown or expired is answered 401, raised before the handler   *)
(* body, so that nothing is created, scheduled or modified; /api/health is  *)
(* served whatever the token.                                               *)
C16_EndpointsRequireSession ==
    \A request \in Requests :
        IF request.endpoint = Health
        THEN Serve(request).response.status_code = 200
        ELSE get_user_by_session(request.token) = None
                => /\ Serve(request).response.status_code = 401
                   /\ Serve(request).store = store
                   /\ Serve(request).tasks = tasks

---------------------------------------------------------------------------
(* C17: a POST /api/articles that is rejected (brief_id missing, brief not  *)
(* found, brief content empty, custom brief empty, query empty, mode not    *)
(* supported) leaves the records and the tasks exactly as they were: no     *)
(* article is created and no orchestrator is scheduled.                     *)
C17_RejectedArticleChangesNothing ==
    \A user_id \in Users : \A payload \in ArticlePayloads :
        LET result == create_article(user_id, payload)
        IN  ~ Accepted(result) =>
                /\ result.response.status_code \in {400, 404, 422}
                /\ result.store = store
                /\ result.tasks = tasks

\* Every kind of rejection can be had in one state: there is a brief the
\* caller owns whose content is empty, and an id of no brief.
C17_Witness ==
    /\ loop = <<>>
    /\ {create_article("u1", payload).response.detail :
            payload \in {p \in ArticlePayloads : ~ Accepted(create_article("u1", p))}}
        = {"Input should be 'from_brief', 'from_custom_brief' or 'quick_draft'",
           "brief_id is required for from_brief mode", "Brief not found",
           "Brief content is empty", "custom_brief_markdown is required",
           "query is required for custom brief mode",
           "query is required for quick draft mode"}

---------------------------------------------------------------------------
(* C18: an accepted POST to /api/runs, /api/briefs or /api/articles has     *)
(* stored, when it returns, a new record that is queued (status queued,     *)
(* stage queued, progress_percent 0, error null), returns that record, and  *)
(* leaves its orchestrator scheduled but not started; and as long as the    *)
(* orchestrator of a record has not taken its first step, the record keeps  *)
(* status queued, progress_percent 0 and no error.                          *)
Queued(row) ==
    /\ row.status = "queued"
    /\ row.stage = "queued"
    /\ row.progress_percent = 0
    /\ row.error = None

StoredQueued(table, result) ==
    LET row == result.response.body
    IN  /\ Queued(row)
        /\ row.id \notin DOMAIN store[table]
        /\ result.store = [store EXCEPT ![table] = Extend(@, row.id, row)]
        /\ result.tasks[table][row.id].pc = "start"

C18_CreatedRecordIsQueued ==
    /\ \A user_id \in Users : \A sources \in RequestSources :
          /\ StoredQueued("runs", NewRun(user_id, sources))
          /\ StoredQueued("briefs", NewBrief(user_id, sources))
          /\ StoredQueued("articles",
                 create_article(user_id,
                     ArticleCreateRequest("quick_draft", Query, None, "", sources)))
    /\ \A user_id \in Users : \A payload \in ArticlePayloads :
          Accepted(create_article(user_id, payload))
             => StoredQueued("articles", create_article(user_id, payload))
    /\ \A table \in Tables : \A id \in Ids(table) :
          tasks[table][id].pc = "start" =>
             /\ store[table][id].status = "queued"
             /\ store[table][id].progress_percent = 0
             /\ store[table][id].error = None

\* A record has been created and its orchestrator has not started, while the
\* orchestrator of an older record is at work.
C18_Witness ==
    \E table \in Tables : \E id \in Ids(table) :
        /\ tasks[table][id].pc = "start"
        /\ Queued(store[table][id])
        /\ \E other \in Ids("briefs") :
              /\ <<table, id>> # <<"briefs", other>>
              /\ store.briefs[other].status = "running"

---------------------------------------------------------------------------
(* C19: for every record exactly one orchestrator invocation has been       *)
(* started, the one of the POST that created it: neither the retry sweep of *)
(* the scheduler nor a later request starts another.                        *)
C19_OneInvocationPerRecord ==
    \A table \in Tables : \A id \in Ids(table) : tasks[table][id].launched = 1

\* What the sweep looks for: a run still queued whose orchestrator has ended.
\* A PATCH and an article read a brief whose orchestrator has ended as well.
C19_Witness ==
    \E id \in Ids("runs") :
        /\ Ended(tasks.runs[id])
        /\ store.runs[id].status = "queued"
        /\ tasks.runs[id].launched = 1
        /\ \E brief_id \in Ids("briefs") :
              /\ Ended(tasks.briefs[brief_id])
              /\ store.briefs[brief_id].stage = "edited_draft"
              /\ tasks.briefs[brief_id].launched = 1

---------------------------------------------------------------------------
(* C20: two update calls on one record, each a single UPDATE statement of   *)
(* the columns it was given, leave the record as one call after the other   *)
(* leaves it; when the two supply disjoint fields the order makes no        *)
(* difference, every supplied field holds the value supplied, and no other  *)
(* field and no other record has changed.                                   *)
UpdateSamples(table) ==
    LET artifacts ==
            CASE table = "runs" -> [RunArtifacts EXCEPT !.article_markdown = "an article"]
              [] table = "briefs" -> [BriefArtifacts EXCEPT !.brief_markdown = "a brief"]
              [] table = "articles" -> [ArticleArtifacts EXCEPT !.article_markdown = "an article"]
    IN  {[status |-> "failed", error |-> "boom"],
         [stage |-> "exporting_output", progress_percent |-> 95],
         [progress_percent |-> 100],
         [artifacts |-> artifacts],
         [artifacts |-> artifacts, stage |-> "edited_draft"]}

---------------------------------------------------------------------------
(* C21: records do not interfere.  A step of the orchestrator of a record   *)
(* and the write of a PATCH change no field of any other record, whatever   *)
(* the interleaving of the orchestrators of different records.              *)
OthersUntouched(table, id) ==
    \A t \in Tables : \A i \in DOMAIN store[t] :
        <<t, i>> # <<table, id>> => store'[t][i] = store[t][i]

C21_RecordsDoNotInterfere ==
    [][/\ \A table \in Tables : \A id \in Ids(table) :
             tasks'[table][id] # tasks[table][id] => OthersUntouched(table, id)
       /\ \A patch \in patches :
             PatchWritten(patch) => OthersUntouched("briefs", patch.brief_id)]_vars

\* The orchestrators of two briefs are both under way, at different stages.
C21_Witness ==
    \E id \in Ids("briefs") : \E other \in Ids("briefs") :
        /\ id # other
        /\ store.briefs[id].status = "running"
        /\ store.briefs[other].status = "running"
        /\ store.briefs[id].stage # store.briefs[other].stage

---------------------------------------------------------------------------
(* C22 (stated as the claim; the code violates it): an update call that     *)
(* returns has set every supplied field among status, stage,                *)
(* progress_percent, error and artifacts to the value supplied, has left    *)
(* every other field but updated_at as it was, and has not moved updated_at *)
(* to an earlier time than it held.                                         *)
UpdateReturns(thread) == calls[thread].op = "update" /\ calls'[thread] = NoCall

C22_UpdateTouchesSuppliedFieldsAndRefreshes ==
    [][\A thread \in Threads : UpdateReturns(thread) =>
          LET id == calls[thread].id
              kwargs == calls[thread].kwargs
              supplied == DOMAIN kwargs \cap
                            {"status", "stage", "progress_percent", "error", "artifacts"}
          IN  /\ \A f \in supplied : rows'[id][f] = kwargs[f]
              /\ \A f \in DOMAIN rows[id] \ (supplied \cup {"updated_at"}) :
                    rows'[id][f] = rows[id][f]
              /\ ~ TextLess(rows'[id].updated_at, rows[id].updated_at)]_vars

---------------------------------------------------------------------------
---------------------------------------------------------------------------
(* C24: for every owner and every limit, a list call returns at most limit  *)
(* records, all of that owner, none twice, from the newest created_at to    *)
(* the oldest, and no record of the owner that it leaves out is newer than  *)
(* one it returns; it leaves none out when the owner has at most limit.     *)
Newer(a, b) == TextLess(b.created_at, a.created_at)

C24_ListNewestFirstWithinLimit ==
    \A user_id \in Users : \A limit \in Limits :
        \A result \in list_articles(rows, user_id, limit) :
            LET listed == [i \in DOMAIN result |-> Fields(rows, result[i])]
                owned == {id \in DOMAIN rows : rows[id].user_id = user_id}
                returned == {listed[i].id : i \in DOMAIN listed}
            IN  /\ Len(listed) <= limit
                /\ Len(listed) = Min(limit, Cardinality(owned))
                /\ Cardinality(returned) = Len(listed)
                /\ \A i \in DOMAIN listed :
                      /\ listed[i].user_id = user_id
                      /\ listed[i] = rows[listed[i].id]
                /\ \A i \in DOMAIN listed : \A j \in DOMAIN listed :
                      i < j => ~ Newer(listed[j], listed[i])
                /\ \A id \in owned \ returned : \A i \in DOMAIN listed :
                      ~ Newer(rows[id], listed[i])

\* An owner has two records created at different times, more than a limit of
\* one, and the other user has none.
C24_Witness ==
    /\ DOMAIN rows = {"1", "2"}
    /\ rows["1"].user_id = rows["2"].user_id
    /\ rows["1"].created_at # rows["2"].created_at
    /\ \A thread \in Threads : calls[thread] = NoCall


---------------------------------------------------------------------------
(* The URL services. *)

Returned(op) == urlcall.op = op /\ urlcall.result # <<>>

\* The list the collector walks: seeds, then citation URLs, then overview URLs.
Concatenation(args) == args.seed_urls \o args.ai_citations_text \o args.ai_overview_text

Cleaned(list) == [i \in DOMAIN list |-> CleanUrl(list[i])]

\* The positions where a non-empty URL of the list appears for the first time.
FirstSeen(list) ==
    {i \in DOMAIN list : list[i] # EmptyUrl /\ \A j \in 1..(i - 1) : list[j] # list[i]}

\* C25: the output of collect_seed_urls holds no duplicate and no empty URL, and
\* it is the list of the distinct cleaned URLs in the order in which they are
\* first seen over the seeds, then the citation URLs, then the overview URLs.
C25_CollectorDistinctFirstSeen ==
    Returned("collect_seed_urls") =>
        LET unique == urlcall.result[1]
            cleaned == Cleaned(Concatenation(urlcall.args))
            first == FirstSeen(cleaned)
        IN  /\ \A i, j \in DOMAIN unique : i # j => unique[i] # unique[j]
            /\ \A i \in DOMAIN unique : unique[i] # EmptyUrl
            /\ Len(unique) = Cardinality(first)
            /\ \A i \in first : unique[Cardinality({j \in first : j <= i})] = cleaned[i]

\* A seed that is cleaned into a URL of the citation text, an empty seed, and a
\* second URL in the overview text: two URLs come out, the seed's first.
C25_Witness ==
    /\ Returned("collect_seed_urls")
    /\ urlcall.args.seed_urls = <<EmptyUrl, UrlASlash>>
    /\ urlcall.args.ai_citations_text = <<UrlB, UrlA>>
    /\ urlcall.args.ai_overview_text = <<UrlA, UrlB>>
    /\ urlcall.result[1] = <<UrlA, UrlB>>


\* C26: a URL is excluded when its scheme is not http or https, when its host,
\* whatever its case, is one of reddit.com, quora.com, youtube.com, youtu.be,
\* pinterest.com, wikipedia.org or one of them after a leading www., or when its
\* path contains a blocked hint; every other http or https URL is acceptable,
\* and select_top_urls returns acceptable URLs only.
C26_ValidatorExcludesDeniedOnly ==
    LET denied == {"reddit.com", "quora.com", "youtube.com", "youtu.be",
                   "pinterest.com", "wikipedia.org"}
        www == {"www.reddit.com", "www.quora.com", "www.youtube.com", "www.youtu.be",
                "www.pinterest.com", "www.wikipedia.org"}
        excluded(u) ==
            \/ u.scheme \notin {"http", "https"}
            \/ Lower(u.host) \in denied \cup www
            \/ \E hint \in BLOCKED_PATH_HINTS : Contains(hint, LowerPath(u.path))
    IN  /\ Returned("is_acceptable_url") =>
            urlcall.result[1] = ~ excluded(urlcall.args.url)
        /\ Returned("select_top_urls") =>
            \A i \in DOMAIN urlcall.result[1] : ~ excluded(urlcall.result[1][i])


\* The acceptable URLs of the candidates, in the order of the candidates.
Acceptable(urls) == SelectSeq(urls, is_acceptable_url)

\* C27: for every candidate list and every configured maximum the
\* result of select_top_urls is a prefix of the acceptable candidates in input
\* order and is no longer than the maximum.
C27_TopUrlsWithinAnyMaximum ==
    Returned("select_top_urls") =>
        LET top == urlcall.result[1]
            filtered == Acceptable(urlcall.args.urls)
        IN  /\ Len(top) <= Len(filtered)
            /\ top = SubSeq(filtered, 1, Len(top))
            /\ Len(top) <= urlcall.args.max_urls


---------------------------------------------------------------------------
(* C28: a PATCH /api/briefs/{id} whose brief_markdown is shorter than 20    *)
(* characters is rejected before the store is read or written: the          *)
(* handler makes no store call and leaves no write to come, so the brief    *)
(* keeps its artifacts, its stage and its updated_at; and no write a        *)
(* handler is about to make carries a markdown shorter than 20 characters.  *)
C28_ShortPatchRejectedBeforeStore ==
    /\ \A user_id \in Users : \A brief_id \in DOMAIN store.briefs \cup {Absent} :
          \A brief_markdown \in ShortBodies :
              LET result == Patch(user_id, brief_id, brief_markdown)
              IN  /\ result.status_code >= 400
                  /\ result.store_calls = <<>>
                  /\ result.patches = patches
    /\ \A patch \in patches : Len(patch.kwargs.artifacts.brief_markdown) >= 20

\* A brief of u1 that a body of twenty characters or more would edit, while
\* u1's body of nineteen characters is answered 422.
C28_Witness ==
    \E brief_id \in DOMAIN store.briefs :
        /\ store.briefs[brief_id].user_id = "u1"
        /\ store.briefs[brief_id].stage = "completed"
        /\ patches = {}
        /\ Patch("u1", brief_id, "nineteen characters").status_code = 422
        /\ \A brief_markdown \in PatchBodies :
              /\ Patch("u1", brief_id, brief_markdown).status_code = 200
              /\ Patch("u1", brief_id, brief_markdown).patches # patches


---------------------------------------------------------------------------
(* C29: within one invocation of an orchestrator the stages run one after   *)
(* another: the position of the invocation only moves forward through       *)
(* start, collection, extraction, building, writing, export, end.  Only in  *)
(* the extraction stage is work of the record under way side by side (the   *)
(* extractions of the selected URLs), and the invocation leaves that stage, *)
(* for the summaries or for a failure, only when the extraction of every    *)
(* selected URL has finished, with content or with an exception.            *)
StageRank(pc) ==
    CASE pc = "start" -> 0
      [] pc = "collect" -> 1
      [] pc = "extracting" -> 2
      [] pc = "build" -> 3
      [] pc = "build_fallback" -> 4
      [] pc = "write" -> 5
      [] pc = "export" -> 6
      [] pc \in {"done", "crashed"} -> 7

UnderWay(t) == {k \in DOMAIN t.results : t.results[k] = Pending}

C29_StagesInSequenceExtractionGathered ==
    [][\A table \in Tables : \A id \in Ids(table) :
          LET before == tasks[table][id]
              after == tasks'[table][id]
          IN  /\ after.pc # before.pc => StageRank(after.pc) > StageRank(before.pc)
              /\ after.pc # "extracting" => UnderWay(after) = {}
              /\ (before.pc = "extracting" /\ after.pc # "extracting") =>
                    UnderWay(before) = {}
              /\ (after.summaries # before.summaries /\ after.summaries # <<>>) =>
                    /\ before.pc = "extracting"
                    /\ UnderWay(before) = {}]_vars

\* A brief whose three selected URLs were extracted, two with content and one
\* with an exception, and whose summaries were then made.
C29_Witness ==
    \E id \in Ids("briefs") :
        LET t == tasks["briefs"][id]
        IN  /\ t.pc = "build"
            /\ Len(t.results) = 3
            /\ \E k \in DOMAIN t.results : IsException(t.results[k])
            /\ Len(t.summaries) = 2


---------------------------------------------------------------------------
(* C30: the stage labels an orchestrator writes follow the order of its     *)
(* variant and never go back.  process_brief: collecting_sources,           *)
(* building_brief, then completed or failed.  process_quick_draft:          *)
(* collecting_sources, building_internal_brief, writing_article,            *)
(* exporting_output, then completed or failed.  The two from-brief          *)
(* variants: writing_article, exporting_output, then completed or failed.   *)
(* failed may follow any label, and after completed or failed the           *)
(* orchestrator writes nothing.  (A label may be written a second time:     *)
(* the query-only branch writes the building label again.)                  *)

\* The labels of the variant, in order.
StageOrder(fn) ==
    CASE fn = "process_brief" ->
            <<"collecting_sources", "building_brief", "completed">>
      [] fn = "process_quick_draft" ->
            <<"collecting_sources", "building_internal_brief", "writing_article",
              "exporting_output", "completed">>
      [] fn \in {"process_article_from_brief", "process_article_from_custom_brief"} ->
            <<"writing_article", "exporting_output", "completed">>
      [] fn = "process_run" -> <<>>

\* The label the orchestrator wrote last, by where it stands; at its end the
\* record tells which of completed and failed it was (an edit of the brief may
\* since have relabelled it).
LastLabel(t, row) ==
    CASE t.pc = "start" -> "queued"
      [] t.pc \in {"collect", "extracting"} -> "collecting_sources"
      [] t.pc \in {"build", "build_fallback"} -> BuildingKwargs(t.fn).stage
      [] t.pc = "write" -> "writing_article"
      [] t.pc = "export" -> "exporting_output"
      [] t.pc \in {"done", "crashed"} -> row.stage

\* The steps of an orchestrator that write to the record: all but the await of
\* the gather and the return of an extraction.
Writes(before, after) ==
    /\ after.pc # before.pc
    /\ ~ (before.pc = "collect" /\ after.pc = "extracting")

C30_StageLabelsInOrder ==
    [][\A table \in {"briefs", "articles"} : \A id \in Ids(table) :
          LET before == tasks[table][id]
              after == tasks'[table][id]
              order == StageOrder(before.fn)
              last == LastLabel(before, store[table][id])
              label == store'[table][id].stage
              position(l) == CHOOSE i \in DOMAIN order : order[i] = l
          IN  /\ before.pc = "done" => after = before
              /\ Writes(before, after) =>
                    /\ label = LastLabel(after, store'[table][id])
                    /\ label \in {order[i] : i \in DOMAIN order} \cup {"failed"}
                    /\ \/ label = "failed"
                       \/ last = "queued" /\ label = order[1]
                       \/ /\ last # "queued"
                          /\ \/ position(label) = position(last) + 1
                             \/ label = last /\ after.pc = "build_fallback"]_vars

\* A quick draft that went through every label to completed, next to a brief
\* that failed.
C30_Witness ==
    /\ \E id \in Ids("articles") :
          /\ tasks["articles"][id].fn = "process_quick_draft"
          /\ tasks["articles"][id].pc = "done"
          /\ store["articles"][id].stage = "completed"
    /\ \E id \in Ids("briefs") :
          /\ tasks["briefs"][id].pc = "done"
          /\ store["briefs"][id].stage = "failed"


---------------------------------------------------------------------------
(* C31: a failed extraction of one selected URL does not abort the batch.   *)
(* When the orchestrator leaves the extraction stage, the no-content error  *)
(* has been raised exactly when the fetch of every selected URL failed, the *)
(* summaries are those of the selected URLs that were fetched, in selection *)
(* order, and the extracted articles a completed brief stores are those of  *)
(* the URLs among its sources that were fetched, in the order of the        *)
(* sources.                                                                 *)
C31_FailedExtractionLeftOut ==
    [][\A table \in {"briefs", "articles"} : \A id \in Ids(table) :
          LET before == tasks[table][id]
              after == tasks'[table][id]
              fetched(u) == Web(u).ok
              urls(list) == [k \in DOMAIN list |-> list[k].url]
              artifacts == store'[table][id].artifacts
          IN  /\ (before.pc = "extracting" /\ after.pc # "extracting") =>
                    /\ ValueError(NoContentMsg) \in after.raised
                          <=> SelectSeq(before.top_urls, fetched) = <<>>
                    /\ (after.fn = "process_brief" /\ after.pc = "build") =>
                          urls(after.summaries) = SelectSeq(before.top_urls, fetched)
              /\ (table = "briefs" /\ store'[table][id].status = "completed") =>
                    urls(artifacts.extracted_articles)
                        = SelectSeq(artifacts.sources, fetched)]_vars

\* A completed brief with three sources, the second of which could not be
\* fetched: the articles of the first and of the third are stored.
C31_Witness ==
    \E id \in DOMAIN store.briefs :
        LET artifacts == store.briefs[id].artifacts
        IN  /\ store.briefs[id].status = "completed"
            /\ artifacts.sources = <<UrlA, UrlDead, UrlB>>
            /\ Len(artifacts.extracted_articles) = 2
            /\ artifacts.extracted_articles[1].url = UrlA
            /\ artifacts.extracted_articles[2].url = UrlB


---------------------------------------------------------------------------
(* C32: for an article of fewer than 80 words summarize_article makes no    *)
(* model call and returns the fixed placeholder; for an article of 80 words *)
(* or more it makes exactly one model call; the summary it returns carries  *)
(* the url of the article.                                                  *)
C32_ShortArticleNotSentToModel ==
    Returned("summarize_article") =>
        LET article == urlcall.args.article
            done == urlcall.result[1]
        IN  /\ article.text < 80 =>
                /\ done.calls = <<>>
                /\ done.value = [url |-> article.url, summary |-> TooShort]
            /\ article.text >= 80 =>
                /\ Len(done.calls) = 1
                /\ ~ IsException(done.value) => done.value.url = article.url

\* An article of exactly 80 words went to the model, which answered.
C32_Witness ==
    /\ Returned("summarize_article")
    /\ urlcall.args.article.text = 80
    /\ urlcall.result[1] = [calls |-> <<"SUMMARY_INSTRUCTION">>,
                            value |-> [url |-> urlcall.args.article.url,
                                       summary |-> "summary"]]


---------------------------------------------------------------------------
(* Sessions (AuthSpec): models/store.py create_session,                     *)
(* get_user_by_session and delete_session, core/auth.py get_current_user    *)
(* and the logout handler of api/routes_auth.py.  The handlers are sync     *)
(* functions run by worker threads; a store call holds the lock for its     *)
(* statement only.  secrets.token_urlsafe(48) gives a token no session ever *)
(* had: tokens are numbered in the order they are issued.  Times are clock  *)
(* values, and so is ttl_days.                                              *)

\* datetime.fromisoformat on the texts isoformat writes.
_parse_dt(value) ==
    IF Len(value) = 2 THEN 2 * (value[1] - 48) ELSE 2 * (value[1] - 48) + 1

\* settings.session_ttl_days: any number of the environment.
Ttls == {0, 1}

Issued == {ToString(n) : n \in 1..auth.issued}

\* The session_token cookie of a request: of a session once issued, or forged.
Cookies == Issued \cup {"forged"}

\* The expired session is taken for a live one.
Expired_Never(expires_at, now) == FALSE

\* self._parse_dt(row["expires_at"]) < self._utcnow()
Expired(expires_at, now) == _parse_dt(expires_at) < now

Deleted(sessions, token) == [t \in DOMAIN sessions \ {token} |-> sessions[t]]

Resting(worker) == auth.lookups[worker].pc \in {"idle", "done"}

\* login and register: create_session(user.id, ttl_days=settings.session_ttl_days)
create_session(user_id, ttl_days) ==
    LET token == ToString(auth.issued + 1)
    IN  /\ auth.issued < MaxSessions
        /\ auth' = [auth EXCEPT
              !.issued = @ + 1,
              !.sessions = Extend(@, token,
                                  [user_id |-> user_id, created_at |-> isoformat(clock),
                                   expires_at |-> isoformat(clock + ttl_days)])]
        /\ UNCHANGED <<pipeline, timed, pure>>

\* get_current_user of a request to handler (me or logout) with the cookie
\* token: get_user_by_session runs its SELECT.
select_session(worker, handler, token) ==
    /\ Resting(worker)
    /\ auth' = [auth EXCEPT !.lookups[worker] =
          [pc |-> "selected", handler |-> handler, token |-> token,
           row |-> IF token \in DOMAIN auth.sessions
                   THEN <<auth.sessions[token]>> ELSE <<>>]]
    /\ UNCHANGED <<pipeline, timed, pure>>

\* The rest of get_user_by_session but the DELETE: no row, an expired row, or
\* the user of the row.  With the user, me returns and logout goes on.
check_session(worker) ==
    LET lookup == auth.lookups[worker]
        answer(pc, user) ==
            [pc |-> pc, handler |-> lookup.handler, token |-> lookup.token,
             row |-> lookup.row, now |-> clock, user |-> user]
    IN  /\ lookup.pc = "selected"
        /\ auth' = [auth EXCEPT !.lookups[worker] =
              IF lookup.row = <<>> THEN answer("done", None)
              ELSE IF Expired(lookup.row[1].expires_at, clock)
              THEN answer("expired", None)
              ELSE IF lookup.handler = "logout"
              THEN answer("logout", lookup.row[1].user_id)
              ELSE answer("done", lookup.row[1].user_id)]
        /\ UNCHANGED <<pipeline, timed, pure>>

\* delete_session(token): by get_user_by_session for an expired row, which
\* then returns None (401), or by the logout handler, which then returns.
delete_session(worker) ==
    LET lookup == auth.lookups[worker]
    IN  /\ lookup.pc \in {"expired", "logout"}
        /\ auth' = [auth EXCEPT
              !.sessions = Deleted(@, lookup.token),
              !.lookups[worker] = [lookup EXCEPT !.pc = "done"]]
        /\ UNCHANGED <<pipeline, timed, pure>>

AuthNext ==
    \/ tick
    \/ \E user_id \in Users, ttl_days \in Ttls : create_session(user_id, ttl_days)
    \/ \E worker \in Workers, handler \in {"me", "logout"}, token \in Cookies :
            select_session(worker, handler, token)
    \/ \E worker \in Workers : check_session(worker)
    \/ \E worker \in Workers : delete_session(worker)

AuthSpec == Init /\ [][AuthNext]_vars

\* C33: a session token authenticates a request only when its session
\* exists and has not expired; a token whose session was deleted (by logout
\* or by a lookup that found it expired) has no session ever after, and a
\* lookup that finds no session authenticates nobody; a lookup that finds the
\* session expired returns no user and has deleted it; and when logout has
\* returned the session is gone.
C33_TokenValidOnlyWhileSessionLives ==
    [][/\ \A token \in Issued :
            token \notin DOMAIN auth.sessions => token \notin DOMAIN auth'.sessions
       /\ \A w \in Workers :
            LET lookup == auth'.lookups[w]
            IN  lookup.pc = "done" =>
                  /\ lookup.user # None =>
                        /\ lookup.row # <<>>
                        /\ lookup.user = lookup.row[1].user_id
                        /\ _parse_dt(lookup.row[1].expires_at) >= lookup.now
                  /\ lookup.row = <<>> => lookup.user = None
                  /\ (lookup.row # <<>> /\ _parse_dt(lookup.row[1].expires_at) < lookup.now) =>
                        /\ lookup.user = None
                        /\ lookup.token \notin DOMAIN auth'.sessions
                  /\ (lookup.handler = "logout" /\ lookup.user # None) =>
                        lookup.token \notin DOMAIN auth'.sessions]_vars

\* The first session was logged out of, and a later request with its token
\* was answered 401 having found no session; the second session was found
\* expired, and deleted.
C33_Witness ==
    /\ DOMAIN auth.sessions = {}
    /\ auth.issued = 2
    /\ auth.lookups["w1"].pc = "done"
    /\ auth.lookups["w1"].token = "1"
    /\ auth.lookups["w1"].row = <<>>
    /\ auth.lookups["w1"].user = None
    /\ auth.lookups["w2"].pc = "done"
    /\ auth.lookups["w2"].token = "2"
    /\ auth.lookups["w2"].row # <<>>
    /\ auth.lookups["w2"].user = None


---------------------------------------------------------------------------
(* C34 (stated as the claim; the code violates it): once a PATCH of a brief *)
(* has returned, the brief's artifacts.brief_markdown is the text it        *)
(* submitted until another PATCH is accepted, whatever the orchestrator of  *)
(* the brief does meanwhile: no step takes a submitted text out of a brief  *)
(* but the write of a PATCH.                                                *)
C34_AcceptedEditIsDurable ==
    [][\A id \in DOMAIN store.briefs :
          store.briefs[id].artifacts.brief_markdown \in PatchBodies =>
              store'.briefs[id].artifacts.brief_markdown \in PatchBodies]_vars


---------------------------------------------------------------------------
(* C35: an article created in from_brief mode holds a snapshot of the       *)
(* brief.  When it is created its artifacts.source_brief_markdown is the    *)
(* trimmed brief_markdown the brief holds at that moment, and no later step *)
(* (of its orchestrator up to completed or failed, or a PATCH of the brief) *)
(* changes it.                                                              *)
C35_FromBriefArticleKeepsSnapshot ==
    [][\A id \in DOMAIN store'.articles :
          store'.articles[id].mode = "from_brief" =>
              LET snapshot == store'.articles[id].artifacts.source_brief_markdown
                  brief_id == store'.articles[id].artifacts.source_brief_id
              IN  IF id \in DOMAIN store.articles
                  THEN snapshot = store.articles[id].artifacts.source_brief_markdown
                  ELSE /\ brief_id \in DOMAIN store.briefs
                       /\ snapshot = Strip(store.briefs[brief_id].artifacts.brief_markdown)
                       /\ snapshot # ""]_vars

\* A completed article written from a brief that was edited after the article
\* was created: the article keeps the text the brief had then.
C35_Witness ==
    \E id \in DOMAIN store.articles :
        LET article == store.articles[id]
        IN  /\ article.mode = "from_brief"
            /\ article.status = "completed"
            /\ article.artifacts.source_brief_markdown \notin PatchBodies
            /\ store.briefs[article.artifacts.source_brief_id].artifacts.brief_markdown
                  \in PatchBodies


---------------------------------------------------------------------------
(* C36 (stated as the claim; the code violates it): the                     *)
(* artifacts.source_brief_id of every article is null or the id of a brief  *)
(* of the article's owner, and that of an article created in                *)
(* from_custom_brief or quick_draft mode is null in every state.            *)
C36_SourceBriefIdNullOrOwnedBrief ==
    \A id \in DOMAIN store.articles :
        LET article == store.articles[id]
            brief_id == article.artifacts.source_brief_id
        IN  /\ \/ brief_id = None
               \/ /\ brief_id \in DOMAIN store.briefs
                  /\ store.briefs[brief_id].user_id = article.user_id
            /\ article.mode \in {"from_custom_brief", "quick_draft"} => brief_id = None


---------------------------------------------------------------------------
(* C37 (stated as the claim; the code violates it): status and stage of     *)
(* every run, brief and article agree in every state: status is failed      *)
(* exactly when stage is failed, stage completed only with status           *)
(* completed, stage queued only with status queued, and a record of status  *)
(* completed has stage completed or edited_draft.                           *)
C37_StatusAndStageAgree ==
    \A table \in {store.runs, store.briefs, store.articles} :
        \A id \in DOMAIN table :
            LET record == table[id] IN
            /\ record.status = "failed" <=> record.stage = "failed"
            /\ record.stage = "completed" => record.status = "completed"
            /\ record.stage = "queued" => record.status = "queued"
            /\ record.status = "completed" =>
                   record.stage \in {"completed", "edited_draft"}

=============================================================================
